---- MODULE Spec2Model ----
(***************************************************************************)
(* BridgeWise graph processor: similarity-graph builder, metrics engine    *)
(* and connection ranker, modelled from src/graph-processor-api.           *)
(*                                                                         *)
(* Person ids are strings in the program and are compared with <; the      *)
(* model uses the integers 1..NPersons, which carry the same order         *)
(* ("P1" < "P2" < ...).  Real numbers (edge weights, metric values, score  *)
(* components) are exact rationals <<num, den>> in lowest terms with       *)
(* den > 0; <<0, 0>> stands for a property that is not set (Cypher null,   *)
(* Python None).  Words are tuples of one-character strings so that the    *)
(* string operations of the query parser can be computed.                  *)
(***************************************************************************)
EXTENDS Integers, Sequences, FiniteSets, TLC

\* ------------------------------------------------------------------ bounds
NPersons == 4
MaxAugment == 1
MaxRepeat == 2
MaxScored == 3
MaxWords == 2
MaxCalls == 3
MaxAttempts == 3
MaxCreates == 2

Persons == 1..NPersons

\* ------------------------------------------------------------- rationals
RECURSIVE GCD(_, _)
GCD(a, b) == IF b = 0 THEN a ELSE LET r == a % b IN GCD(b, r)

Abs(x) == IF x < 0 THEN -x ELSE x

Rat(n, d) ==
    LET s == IF d < 0 THEN -1 ELSE 1
        g == GCD(Abs(n), Abs(d))
    IN  <<(s * n) \div g, (s * d) \div g>>

NullR == <<0, 0>>
Zero == <<0, 1>>
One == <<1, 1>>
IsNull(x) == x[2] = 0
Coalesce(x, dflt) == IF IsNull(x) THEN dflt ELSE x

RAdd(x, y) ==
    LET g == GCD(x[2], y[2])
    IN  Rat(x[1] * (y[2] \div g) + y[1] * (x[2] \div g), x[2] * (y[2] \div g))
RSub(x, y) == RAdd(x, <<-y[1], y[2]>>)
RMul(x, y) ==
    LET g1 == GCD(Abs(x[1]), y[2])
        g2 == GCD(Abs(y[1]), x[2])
        a1 == IF g1 = 0 THEN 1 ELSE g1
        a2 == IF g2 = 0 THEN 1 ELSE g2
    IN  Rat((x[1] \div a1) * (y[1] \div a2), (x[2] \div a2) * (y[2] \div a1))
RInv(x) == Rat(x[2], x[1])
RDiv(x, y) == RMul(x, RInv(y))
RSign(x) == IF x[1] > 0 THEN 1 ELSE IF x[1] < 0 THEN -1 ELSE 0
RLe(x, y) == RSign(RSub(x, y)) <= 0
RLt(x, y) == RSign(RSub(x, y)) < 0
Int2R(n) == <<n, 1>>

\* Fold of a rational-valued function over a finite set.
RECURSIVE RSum(_, _)
RSum(f, S) ==
    IF S = {} THEN Zero
    ELSE LET x == CHOOSE y \in S : TRUE IN RAdd(f[x], RSum(f, S \ {x}))

\* ----------------------------------------------------------------- words
\* The words of the graph store and of the query parser.
W ==
    [python |-> <<"p", "y", "t", "h", "o", "n">>,
     sql |-> <<"s", "q", "l">>,
     go |-> <<"g", "o">>,
     java |-> <<"j", "a", "v", "a">>,
     google |-> <<"g", "o", "o", "g", "l", "e">>,
     mit |-> <<"m", "i", "t">>,
     software |-> <<"s", "o", "f", "t", "w", "a", "r", "e">>,
     engineer |-> <<"e", "n", "g", "i", "n", "e", "e", "r">>,
     softwareengineer |-> <<"s", "o", "f", "t", "w", "a", "r", "e", "e", "n", "g", "i", "n", "e", "e", "r">>,
     developer |-> <<"d", "e", "v", "e", "l", "o", "p", "e", "r">>,
     scientist |-> <<"s", "c", "i", "e", "n", "t", "i", "s", "t">>,
     datascientist |-> <<"d", "a", "t", "a", "s", "c", "i", "e", "n", "t", "i", "s", "t">>,
     data |-> <<"d", "a", "t", "a">>,
     s |-> <<"s">>,
     at |-> <<"a", "t">>,
     company |-> <<"c", "o", "m", "p", "a", "n", "y">>]

\* ------------------------------------------------------------------ text
\* Strings are sequences of one-character strings.
UpperChars == <<"A", "B", "C", "D", "E", "F", "G", "H", "I", "J", "K", "L", "M",
                "N", "O", "P", "Q", "R", "S", "T", "U", "V", "W", "X", "Y", "Z">>
LowerChars == <<"a", "b", "c", "d", "e", "f", "g", "h", "i", "j", "k", "l", "m",
                "n", "o", "p", "q", "r", "s", "t", "u", "v", "w", "x", "y", "z">>
AlnumChars ==
    {LowerChars[i] : i \in DOMAIN LowerChars}
        \cup {"0", "1", "2", "3", "4", "5", "6", "7", "8", "9"}

\* str.lower() / toLower()
UpperToLower ==
    [c \in {UpperChars[i] : i \in DOMAIN UpperChars} |->
        LowerChars[CHOOSE i \in DOMAIN UpperChars : UpperChars[i] = c]]
Lower(s) ==
    [i \in DOMAIN s |-> IF s[i] \in DOMAIN UpperToLower THEN UpperToLower[s[i]] ELSE s[i]]

\* str.strip() / trim()
RECURSIVE Strip(_)
Strip(s) ==
    IF s = <<>> THEN s
    ELSE IF s[1] = " " THEN Strip(Tail(s))
    ELSE IF s[Len(s)] = " " THEN Strip(SubSeq(s, 1, Len(s) - 1))
    ELSE s

StartsWith(s, pre) == Len(pre) <= Len(s) /\ SubSeq(s, 1, Len(pre)) = pre
EndsWith(s, suf) ==
    Len(suf) <= Len(s) /\ SubSeq(s, Len(s) - Len(suf) + 1, Len(s)) = suf
\* needle in hay
Contains(hay, needle) ==
    \E i \in 1..(Len(hay) - Len(needle) + 1) :
        SubSeq(hay, i, i + Len(needle) - 1) = needle

\* re.split on runs of separator characters, empty parts dropped: the list
\* of maximal separator-free runs, in order.
RECURSIVE SplitOn(_, _, _, _)
SplitOn(s, seps, cur, acc) ==
    IF s = <<>> THEN (IF cur = <<>> THEN acc ELSE Append(acc, cur))
    ELSE IF s[1] \in seps
         THEN SplitOn(Tail(s), seps, <<>>, IF cur = <<>> THEN acc ELSE Append(acc, cur))
         ELSE SplitOn(Tail(s), seps, Append(cur, s[1]), acc)

\* sep.join(parts)
RECURSIVE JoinWith(_, _)
JoinWith(parts, sep) ==
    IF parts = <<>> THEN <<>>
    ELSE IF Len(parts) = 1 THEN parts[1]
    ELSE parts[1] \o sep \o JoinWith(Tail(parts), sep)

Range(s) == {s[i] : i \in DOMAIN s}

\* a < b for two str: by code point, a proper prefix first.  Digits come
\* before the lower-case letters; "-" comes before both.
RECURSIVE StrLess(_, _)
StrLess(a, b) ==
    LET order == <<"-", "0", "1", "2", "3", "4", "5", "6", "7", "8", "9">> \o LowerChars
        ord(c) == CHOOSE i \in DOMAIN order : order[i] = c
    IN  IF a = <<>> THEN b # <<>>
        ELSE IF b = <<>> THEN FALSE
        ELSE IF a[1] = b[1] THEN StrLess(Tail(a), Tail(b))
        ELSE ord(a[1]) < ord(b[1])
\* sorted(S) for a set S of str
RECURSIVE SortedStr(_)
SortedStr(S) ==
    IF S = {} THEN <<>>
    ELSE LET m == CHOOSE x \in S : \A y \in S \ {x} : StrLess(x, y)
         IN  <<m>> \o SortedStr(S \ {m})

\* rank_my_connections._tokenize: lower-case, every character outside
\* [a-z0-9 whitespace / + & -] becomes a space, whitespace is collapsed and
\* stripped, then the text is split on runs of space, /, +, - and &.
tokenize(text) ==
    IF text = <<>> THEN <<>>
    ELSE LET t == Lower(text)
             t1 == [i \in DOMAIN t |->
                      IF t[i] \in AlnumChars \cup {" ", "/", "+", "-", "&"} THEN t[i] ELSE " "]
             t2 == Strip(JoinWith(SplitOn(t1, {" "}, <<>>, <<>>), <<" ">>))
         IN  IF t2 = <<>> THEN <<>> ELSE SplitOn(t2, {" ", "/", "+", "-", "&"}, <<>>, <<>>)


\* rank_my_connections._ROLE_ROOTS
ROLE_ROOTS ==
    {<<"e", "n", "g", "i", "n", "e", "e", "r">>,
     <<"d", "e", "v", "e", "l", "o", "p", "e", "r">>,
     <<"m", "a", "n", "a", "g", "e", "r">>,
     <<"a", "n", "a", "l", "y", "s", "t">>,
     <<"d", "e", "s", "i", "g", "n", "e", "r">>,
     <<"s", "c", "i", "e", "n", "t", "i", "s", "t">>,
     <<"a", "r", "c", "h", "i", "t", "e", "c", "t">>,
     <<"s", "o", "f", "t", "w", "a", "r", "e">>,
     <<"b", "a", "c", "k", "e", "n", "d">>,
     <<"f", "r", "o", "n", "t">>,
     <<"f", "r", "o", "n", "t", "e", "n", "d">>,
     <<"f", "u", "l", "l", "s", "t", "a", "c", "k">>,
     <<"f", "u", "l", "l", "-", "s", "t", "a", "c", "k">>,
     <<"d", "a", "t", "a">>,
     <<"m", "l">>,
     <<"a", "i">>,
     <<"q", "a">>,
     <<"s", "r", "e">>,
     <<"d", "e", "v", "o", "p", "s">>,
     <<"s", "e", "c", "u", "r", "i", "t", "y">>,
     <<"m", "o", "b", "i", "l", "e">>,
     <<"i", "o", "s">>,
     <<"a", "n", "d", "r", "o", "i", "d">>}

\* _parse_query's role_terms: the roots and their plurals
ROLE_TERMS ==
    ROLE_ROOTS \cup {r \o W.s : r \in {x \in ROLE_ROOTS : ~EndsWith(x, W.s)}}

\* _parse_query without singularize: plural role words are kept as written.
parse_query_plural(goal_text, all_skills) ==
    LET tokens == Range(tokenize(goal_text))
        skills_set == {Strip(Lower(s)) : s \in {x \in all_skills : Strip(x) # <<>>}}
        role_terms == ROLE_TERMS
    IN  [goal_skills |-> {t \in tokens : t \in skills_set},
         goal_job_tokens |->
            {x \in tokens : x \in role_terms \/ EndsWith(x, W.engineer)}]
\* rank_my_connections._parse_query: (goal_skills, goal_job_tokens), each
\* the set that the function sorts into the list it returns.
parse_query(goal_text, all_skills) ==
    LET tokens == Range(tokenize(goal_text))
        skills_set == {Strip(Lower(s)) : s \in {x \in all_skills : Strip(x) # <<>>}}
        role_roots == ROLE_ROOTS
        role_terms == ROLE_TERMS
        singularize(t) ==
            IF EndsWith(t, W.s) /\ SubSeq(t, 1, Len(t) - 1) \in role_roots
            THEN SubSeq(t, 1, Len(t) - 1) ELSE t
    IN  [goal_skills |-> {t \in tokens : t \in skills_set},
         goal_job_tokens |->
            {singularize(t) : t \in {x \in tokens :
                                       x \in role_terms \/ EndsWith(x, W.engineer)}}]

\* rank_my_connections._parse_company_queries
parse_company_queries(text, all_companies) ==
    IF text = <<>> THEN {}
    ELSE LET lowered == Lower(text)
             norm == [i \in DOMAIN lowered |->
                        IF lowered[i] \in AlnumChars \cup {" "} THEN lowered[i] ELSE " "]
             tokens == SplitOn(norm, {" "}, <<>>, <<>>)
             token_text == <<" ">> \o JoinWith(tokens, <<" ">>) \o <<" ">>
             c_low(c) == Strip(Lower(c))
             hit(c) ==
                 \/ Contains(token_text, <<" ">> \o c_low(c) \o <<" ">>)
                 \/ Contains(token_text, <<" ">> \o W.at \o <<" ">> \o c_low(c) \o <<" ">>)
                 \/ Contains(token_text, <<" ">> \o W.company \o <<" ">> \o c_low(c) \o <<" ">>)
         IN  {c_low(c) : c \in {x \in all_companies : c_low(x) # <<>> /\ hit(x)}}

\* rank_my_connections._levenshtein: row-by-row edit distance
RECURSIVE LevRow(_, _, _, _, _)
LevRow(ca, b, prev, cur, j) ==
    IF j > Len(b) THEN cur
    ELSE LET ins == prev[j + 1] + 1
             dele == cur[j] + 1
             sub == prev[j] + (IF ca = b[j] THEN 0 ELSE 1)
         IN  LevRow(ca, b, prev, Append(cur, IF ins <= dele /\ ins <= sub THEN ins
                              ELSE IF dele <= sub THEN dele ELSE sub), j + 1)
RECURSIVE LevRows(_, _, _, _)
LevRows(a, b, prev, i) ==
    IF i > Len(a) THEN prev
    ELSE LevRows(a, b, LevRow(a[i], b, prev, <<i>>, 1), i + 1)
levenshtein(a, b) ==
    IF a = b THEN 0
    ELSE IF a = <<>> THEN Len(b)
    ELSE IF b = <<>> THEN Len(a)
    ELSE LevRows(a, b, [j \in 1..(Len(b) + 1) |-> j - 1], 1)[Len(b) + 1]

\* rank_my_connections._fuzzy_normalize_companies
FuzzyLenGap == 3
FuzzyShortLen == 8
FuzzyShortThresh == 2
FuzzyLongThresh == 3
fuzzy_normalize_companies(targets, universe) ==
    LET u_set == {Lower(u) : u \in universe}
        max2(x, y) == IF x >= y THEN x ELSE y
        one(t0) ==
            LET t == Strip(Lower(t0))
                sw == {u \in u_set : StartsWith(u, t) \/ StartsWith(t, u)}
            IN  IF t = <<>> THEN {}
                ELSE IF t \in u_set THEN {t}
                ELSE IF sw # {} THEN sw
                ELSE {u \in u_set :
                        /\ Abs(Len(u) - Len(t)) <= FuzzyLenGap
                        /\ levenshtein(t, u) <=
                              (IF max2(Len(t), Len(u)) <= FuzzyShortLen
                               THEN FuzzyShortThresh ELSE FuzzyLongThresh)}
    IN  UNION {one(t0) : t0 \in targets}

\* rank_my_connections._jaccard
jaccard(a, b) ==
    IF a = {} /\ b = {} THEN Zero
    ELSE LET inter == Cardinality(a \cap b)
             union == Cardinality(a \cup b)
         IN  IF union # 0 THEN Rat(inter, union) ELSE Zero

\* rank_my_connections._expand_job_tokens
JobExpandMinLen == 6
expand_job_tokens(tokens) ==
    tokens \cup {root \in ROLE_ROOTS :
                   \E tok \in tokens :
                       Len(tok) >= JobExpandMinLen /\ Contains(tok, root) /\ root # tok}

\* ------------------------------------------------- graph store contents
\* Person nodes and the attributes the core reads but never writes (they
\* are owned by ingestion).  HAS_SKILL edges mirror Person.skills.
skills(p) ==
    CASE p = 1 -> {W.python}
      [] p = 2 -> {W.python, W.go}
      [] p = 3 -> {W.go, W.sql, W.java}
      [] p = 4 -> {W.sql, W.java}
      [] OTHER -> {W.java}

\* (p)-[:WORKED_AT]->(c:Company)
worked_at(p) ==
    CASE p = 1 -> {W.google}
      [] p = 4 -> {W.google}
      [] OTHER -> {}

\* (p)-[:ATTENDED]->(u:School)
attended(p) ==
    CASE p = 2 -> {W.mit}
      [] p = 3 -> {W.mit}
      [] OTHER -> {}

\* Person.jobTitleCanon ("" when the person has none)
jobTitleCanon(p) ==
    CASE p = 1 -> "SoftwareEngineer"
      [] p = 2 -> "SoftwareEngineer"
      [] p = 3 -> "DataScientist"
      [] p = 4 -> "Engineer"
      [] OTHER -> ""

\* Vector store: cosine score between the stored vectors of two persons
\* (read by the embedding augmentation through index.query(id=...)).
emb_score(a, b) ==
    LET lo == IF a < b THEN a ELSE b
        hi == IF a < b THEN b ELSE a
    IN  CASE a = b -> One
          [] lo = 1 /\ hi = 2 -> Rat(9, 10)
          [] lo = 1 /\ hi = 3 -> Rat(1, 2)
          [] lo = 1 /\ hi = 4 -> Rat(-1, 5)
          [] lo = 2 /\ hi = 3 -> Rat(7, 10)
          [] lo = 2 /\ hi = 4 -> Rat(3, 10)
          [] lo = 3 /\ hi = 4 -> Rat(4, 5)
          [] OTHER -> Rat(1, 10 + lo + hi)

\* ------------------------------------------------------ edge collections
NoEdges == [e \in {} |-> 0]
Null == -1

\* MERGE (p1)-[r:SIMILAR]->(p2): the directed edge is matched, else created
\* with no properties.
MergeDirected(edges, a, b) ==
    IF <<a, b>> \in DOMAIN edges THEN edges
    ELSE [e \in DOMAIN edges \cup {<<a, b>>} |->
            IF e = <<a, b>> THEN [weight |-> NullR, sharedSkills |-> Null, jaccard |-> NullR]
            ELSE edges[e]]

OrderedPairs == {pq \in Persons \X Persons : pq[1] < pq[2]}

Shared(p1, p2) == Cardinality(skills(p1) \cap skills(p2))

\* similarity_builder.build_similar_edges, base query (count or jaccard).
BaseEdges(edges, min_shared, weight_mode) ==
    LET hit == {pq \in OrderedPairs :
                   Shared(pq[1], pq[2]) >= 1 /\ Shared(pq[1], pq[2]) >= min_shared}
        val(pq, old) ==
            LET shared == Shared(pq[1], pq[2])
                a == Cardinality(skills(pq[1]))
                b == Cardinality(skills(pq[2]))
                inter == Cardinality(skills(pq[1]) \cap skills(pq[2]))
                unionSize == a + b - inter
                jac == IF unionSize = 0 THEN Zero ELSE Rat(shared, unionSize)
            IN  IF weight_mode = "count"
                THEN [old EXCEPT !.weight = Int2R(shared), !.sharedSkills = shared]
                ELSE [old EXCEPT !.weight = jac, !.sharedSkills = shared, !.jaccard = jac]
    IN  [e \in DOMAIN edges \cup hit |->
            IF e \in hit
            THEN val(e, MergeDirected(edges, e[1], e[2])[e])
            ELSE edges[e]]

\* One boost query: one row per (p1, p2, shared node); every row does
\* MERGE ... SET r.weight = coalesce(r.weight, 0) + b.
BoostEdges(edges, link, b) ==
    LET rows(pq) == Cardinality(link[pq[1]] \cap link[pq[2]])
        hit == {pq \in OrderedPairs : rows(pq) >= 1}
    IN  [e \in DOMAIN edges \cup hit |->
            IF e \in hit
            THEN LET old == MergeDirected(edges, e[1], e[2])[e]
                 IN  [old EXCEPT !.weight =
                        RAdd(Coalesce(old.weight, Zero), RMul(Int2R(rows(e)), b))]
            ELSE edges[e]]

build_similar_edges_noclear(edges, min_shared_skills, weight_mode, boost_company, boost_school, clear_existing) ==
    LET e1 == BaseEdges(edges, min_shared_skills, weight_mode)
        e2 == IF RSign(boost_company) > 0 THEN BoostEdges(e1, [p \in Persons |-> worked_at(p)], boost_company) ELSE e1
        e3 == IF RSign(boost_school) > 0 THEN BoostEdges(e2, [p \in Persons |-> attended(p)], boost_school) ELSE e2
    IN  e3

build_similar_edges(edges, min_shared_skills, weight_mode, boost_company, boost_school, clear_existing) ==
    LET e0 == IF clear_existing THEN NoEdges ELSE edges
        e1 == BaseEdges(e0, min_shared_skills, weight_mode)
        e2 == IF RSign(boost_company) > 0 THEN BoostEdges(e1, [p \in Persons |-> worked_at(p)], boost_company) ELSE e1
        e3 == IF RSign(boost_school) > 0 THEN BoostEdges(e2, [p \in Persons |-> attended(p)], boost_school) ELSE e2
    IN  e3

\* index.query(id=pid, top_k=k): the k stored vectors nearest to pid's own
\* vector (pid itself included), best first.
NearestRank(pid, m) ==
    Cardinality({x \in Persons :
                    \/ RLt(emb_score(pid, m), emb_score(pid, x))
                    \/ (emb_score(pid, m) = emb_score(pid, x) /\ x < m)})

\* similarity_builder.augment_with_embedding_edges: the (a, b, w) list
\* built from the matches, one entry per (pid, match).
AugmentEntries(top_k, failed) ==
    {pm \in (Persons \ failed) \X Persons :
        /\ NearestRank(pm[1], pm[2]) < top_k + 1
        /\ pm[2] # pm[1]
        /\ RSign(emb_score(pm[1], pm[2])) > 0}

\* The UNWIND adds one entry at a time; an undirected pair gets at most the
\* entry found from its low end and the entry found from its high end.
augment_with_embedding_edges(edges, top_k, scale, failed) ==
    IF top_k <= 0 THEN edges
    ELSE
    LET entries == AugmentEntries(top_k, failed)
        hit == {IF pm[1] < pm[2] THEN pm ELSE <<pm[2], pm[1]>> : pm \in entries}
        w(x, y) == IF <<x, y>> \in entries
                   THEN RMul(emb_score(x, y), scale) ELSE Zero
    IN  [e \in DOMAIN edges \cup hit |->
            IF e \in hit
            THEN LET old == MergeDirected(edges, e[1], e[2])[e]
                 IN  [old EXCEPT !.weight =
                        RAdd(RAdd(Coalesce(old.weight, Zero), w(e[1], e[2])),
                             w(e[2], e[1]))]
            ELSE edges[e]]

\* precompute_graph.build_similar_job_edges_grouped: delete every
\* SIMILAR_JOB edge, then MERGE (p1)-[r:SIMILAR_JOB]-(p2), which on an
\* empty layer creates the edge from p1 to p2.
build_similar_job_edges_grouped(weight) ==
    LET hit == {pq \in OrderedPairs :
                   /\ jobTitleCanon(pq[1]) # ""
                   /\ jobTitleCanon(pq[2]) = jobTitleCanon(pq[1])}
    IN  [e \in hit |-> [weight |-> weight]]

\* --------------------------------------------------------- metrics engine
Layers == {"Skills", "Job"}

\* MATCH (p)-[:R]-(n): neighbours over the layer's edges, either direction.
Neigh(edges, p) ==
    {q \in Persons : <<p, q>> \in DOMAIN edges \/ <<q, p>> \in DOMAIN edges}

\* rel_query of the projection: every edge once, from the smaller id to the
\* larger.  Relationships with an end outside the node query are dropped
\* here; ProjectionRejected says when the projection meets such a one.
ProjRels(edges, nodes) ==
    {pq \in OrderedPairs :
        /\ pq[2] \in Neigh(edges, pq[1])
        /\ pq[1] \in nodes /\ pq[2] \in nodes}
ProjectionRejected(edges, exclude) ==
    \E pq \in OrderedPairs :
        pq[2] \in Neigh(edges, pq[1]) /\ (pq[1] \in exclude \/ pq[2] \in exclude)

\* PathTables(rels, k)[j + 1][<<s, t>>]: number of directed paths of exactly
\* j relationships from s to t, for j = 0..k.
RECURSIVE ISum(_, _)
ISum(f, S) ==
    IF S = {} THEN 0
    ELSE LET x == CHOOSE y \in S : TRUE IN f[x] + ISum(f, S \ {x})

RECURSIVE PathTables(_, _)
PathTables(rels, k) ==
    IF k = 0 THEN <<[st \in Persons \X Persons |-> IF st[1] = st[2] THEN 1 ELSE 0]>>
    ELSE LET prev == PathTables(rels, k - 1)
             last == prev[k]
         IN  Append(prev,
                    [st \in Persons \X Persons |->
                        LET preds == {u \in Persons : <<u, st[2]>> \in rels}
                        IN  ISum([u \in preds |-> last[<<st[1], u>>]], preds)])

\* gds.betweenness on the projected (directed) graph: for every node v the
\* sum over pairs s, t of the share of shortest s->t paths through v.
Betweenness(rels, nodes) ==
    LET cnt == PathTables(rels, NPersons - 1)
        dist == [st \in nodes \X nodes |->
                    IF \E k \in 0..(NPersons - 1) : cnt[k + 1][st] > 0
                    THEN CHOOSE k \in 0..(NPersons - 1) :
                             /\ cnt[k + 1][st] > 0
                             /\ \A j \in 0..(k - 1) : cnt[j + 1][st] = 0
                    ELSE Null]
        sigma == [st \in nodes \X nodes |->
                    IF dist[st] = Null THEN 0 ELSE cnt[dist[st] + 1][st]]
        pairs(v) == {st \in nodes \X nodes :
                        /\ st[1] # st[2] /\ st[1] # v /\ st[2] # v
                        /\ dist[st] # Null
                        /\ dist[<<st[1], v>>] # Null /\ dist[<<v, st[2]>>] # Null
                        /\ dist[<<st[1], v>>] + dist[<<v, st[2]>>] = dist[st]}
    IN  IF rels = {} THEN [v \in nodes |-> Zero]
        ELSE [v \in nodes |->
                RSum([st \in pairs(v) |->
                         Rat(sigma[<<st[1], v>>] * sigma[<<v, st[2]>>], sigma[st])],
                     pairs(v))]

\* gds.louvain.write: community ids are opaque; the model writes the
\* smallest person id of the node's connected component in the projection.
RECURSIVE Component(_, _)
Component(rels, S) ==
    LET T == S \cup {q \in Persons : \E p \in S : <<p, q>> \in rels \/ <<q, p>> \in rels}
    IN  IF T = S THEN S ELSE Component(rels, T)
Community(rels, p) ==
    LET C == Component(rels, {p}) IN CHOOSE m \in C : \A x \in C : m <= x

\* Rows of the degree query: UNWIND neigh drops every person whose
\* neighbour list is empty.
DegreeRows(edges) == {p \in Persons : Neigh(edges, p) # {}}

\* Bridging coefficient computed from one row of the degree query.
BridgeCoeffDifference(edges, p) ==
    LET deg == Cardinality(Neigh(edges, p))
        nb == {u \in Neigh(edges, p) : Cardinality(Neigh(edges, u)) > 0}
        inv_sum == RSum([u \in nb |-> Rat(1, Cardinality(Neigh(edges, u)))], nb)
    IN  IF deg > 0 /\ Neigh(edges, p) # {}
        THEN (IF RSign(inv_sum) > 0 THEN RSub(Rat(1, deg), inv_sum) ELSE Zero)
        ELSE Zero
BridgeCoeff(edges, p) ==
    LET deg == Cardinality(Neigh(edges, p))
        nb == {u \in Neigh(edges, p) : Cardinality(Neigh(edges, u)) > 0}
        inv_sum == RSum([u \in nb |-> Rat(1, Cardinality(Neigh(edges, u)))], nb)
    IN  IF deg > 0 /\ Neigh(edges, p) # {}
        THEN (IF RSign(inv_sum) > 0 THEN RMul(Rat(1, deg), RInv(inv_sum)) ELSE Zero)
        ELSE Zero

NoProps == [community |-> Null, betweenness |-> NullR, similarDegree |-> Null,
            bridgeCoeff |-> NullR, bridgePotential |-> NullR]

\* precompute_graph.run_metrics_generic for one layer.  strict says whether
\* the projection rejects a relationship that ends at an excluded person
\* (the run then fails before anything is written) or skips it.
run_metrics_generic(pr, edges, exclude_ids, strict) ==
    IF strict /\ ProjectionRejected(edges, exclude_ids) THEN pr
    ELSE
    LET nodes == Persons \ exclude_ids
        rels == ProjRels(edges, nodes)
        bet == Betweenness(rels, nodes)
        p1 == [p \in Persons |->
                 IF p \in nodes
                 THEN [pr[p] EXCEPT !.community = Community(rels, p),
                                    !.betweenness = bet[p]]
                 ELSE pr[p]]
    IN  [p \in Persons |->
            IF p \in DegreeRows(edges)
            THEN [p1[p] EXCEPT
                    !.bridgeCoeff = BridgeCoeff(edges, p),
                    !.bridgePotential =
                        RMul(Coalesce(p1[p].betweenness, Zero), BridgeCoeff(edges, p)),
                    !.similarDegree = Cardinality(Neigh(edges, p))]
            ELSE p1[p]]

\* ------------------------------------------------- ranker: graph reads
\* Person.company (<<>> when the property is absent)
company(p) ==
    CASE p = 1 -> <<"G", "o", "o", "g", "l", "e">>
      [] p = 3 -> <<"A", "c", "m", "e">>
      [] p = 4 -> <<"G", "o", "o", "g", "l", "e">>
      [] OTHER -> <<>>

\* Person.jobTitleCanonTokens and Person.jobTitleTokens
jobTitleCanonTokens(p) ==
    CASE p = 1 -> {W.softwareengineer}
      [] p = 2 -> {W.softwareengineer}
      [] p = 3 -> {W.datascientist}
      [] p = 4 -> {W.engineer}
      [] OTHER -> {}
jobTitleTokens(p) ==
    CASE p = 1 -> {W.software, W.engineer}
      [] p = 2 -> {W.software, W.developer}
      [] p = 3 -> {W.data, W.scientist}
      [] p = 4 -> {W.engineer}
      [] OTHER -> {}

\* rank_my_connections._fetch_all_skills
fetch_all_skills ==
    {s \in {Lower(Strip(x)) : x \in UNION {skills(p) : p \in Persons}} : s # <<>>}

\* rank_my_connections._detect_company_schema: the probe query is written
\* with doubled braces in a plain string, the server rejects it, the
\* exception is swallowed and the function returns False.
detect_company_schema == FALSE

\* rank_my_connections._fetch_all_companies
fetch_all_companies(schema_has_company) ==
    LET nodes == IF schema_has_company
                 THEN {Lower(c) : c \in {x \in UNION {worked_at(p) : p \in Persons} :
                                            Strip(x) # <<>>}}
                 ELSE {}
        allc == {Lower(company(p)) : p \in {x \in Persons : company(x) # <<>>}}
    IN  {c \in nodes \cup allc : c # <<>>}

\* The lower-cased company list the candidate queries build for a person.
PersonCompanies(p, schema_has_company) ==
    LET propCompany == Lower(company(p))
        relCompanies == IF schema_has_company
                        THEN {Lower(c) : c \in worked_at(p)} ELSE {}
    IN  {x \in relCompanies \cup {propCompany} : x # <<>>}

\* The direct KNOWS neighbours of a person, in either direction.
KnowsNeighbours(knowsRel, me_id) ==
    {p \in Persons : <<me_id, p>> \in knowsRel \/ <<p, me_id>> \in knowsRel}

\* MATCH (me:Person {id:$meId})-[:KNOWS]-(p:Person): the number of rows
\* (one per relationship between the two) the pattern yields for p.
KnowsRowsAnyone(knowsRel, me_id, p) == 1
KnowsRows(knowsRel, me_id, p) ==
    Cardinality({e \in knowsRel : e = <<me_id, p>> \/ e = <<p, me_id>>})

RECURSIVE Repeat(_, _)
Repeat(x, n) == IF n <= 0 THEN <<>> ELSE <<x>> \o Repeat(x, n - 1)
\* The id column of a result with rows(p) rows for person p, in id order.
RECURSIVE IdRows(_, _)
IdRows(rows, p) ==
    IF p > NPersons THEN <<>> ELSE Repeat(p, rows[p]) \o IdRows(rows, p + 1)

\* The prefilter without the narrowing to AND for a job and a company goal.
fetch_candidate_connections_or(knowsRel, me_id, goal_skills, goal_job_tokens, goal_companies, schema_has_company) ==
    LET has_skill == goal_skills # {}
        has_job == goal_job_tokens # {}
        has_company == goal_companies # {}
        rows(p) == KnowsRows(knowsRel, me_id, p)
        skillList == {Lower(x) : x \in goal_skills}
        companyList == {Lower(x) : x \in goal_companies}
        skillHit(p) == has_skill /\ \E s \in skills(p) : Lower(s) \in skillList
        jobHit(p) == has_job /\ jobTitleCanonTokens(p) \cap goal_job_tokens # {}
        companyHit(p) ==
            has_company /\ PersonCompanies(p, schema_has_company) \cap companyList # {}
        where(p) == skillHit(p) \/ jobHit(p) \/ companyHit(p)
    IN  IF ~(has_skill \/ has_job \/ has_company)
        THEN IdRows([p \in Persons |-> IF rows(p) > 0 THEN 1 ELSE 0], 1)
        ELSE IF schema_has_company
        THEN IdRows([p \in Persons |-> IF rows(p) > 0 /\ where(p) THEN 1 ELSE 0], 1)
        ELSE IdRows([p \in Persons |-> IF where(p) THEN rows(p) ELSE 0], 1)
\* rank_my_connections._fetch_candidate_connections (None and [] are both
\* passed as the empty set: the function only tests their truth value).
fetch_candidate_connections(knowsRel, me_id, goal_skills, goal_job_tokens, goal_companies, schema_has_company) ==
    LET has_skill == goal_skills # {}
        has_job == goal_job_tokens # {}
        has_company == goal_companies # {}
        rows(p) == KnowsRows(knowsRel, me_id, p)
        skillList == {Lower(x) : x \in goal_skills}
        companyList == {Lower(x) : x \in goal_companies}
        skillHit(p) == has_skill /\ \E s \in skills(p) : Lower(s) \in skillList
        jobHit(p) == has_job /\ jobTitleCanonTokens(p) \cap goal_job_tokens # {}
        companyHit(p) ==
            has_company /\ PersonCompanies(p, schema_has_company) \cap companyList # {}
        where(p) ==
            IF has_job /\ has_company /\ ~has_skill
            THEN jobHit(p) /\ companyHit(p)
            ELSE skillHit(p) \/ jobHit(p) \/ companyHit(p)
    IN  IF ~(has_skill \/ has_job \/ has_company)
        THEN IdRows([p \in Persons |-> IF rows(p) > 0 THEN 1 ELSE 0], 1)
        ELSE IF schema_has_company
        THEN IdRows([p \in Persons |-> IF rows(p) > 0 /\ where(p) THEN 1 ELSE 0], 1)
        ELSE IdRows([p \in Persons |-> IF where(p) THEN rows(p) ELSE 0], 1)

\* rank_my_connections._fetch_candidate_companies
fetch_candidate_companies(cand_ids, schema_has_company) ==
    [p \in Range(cand_ids) |-> PersonCompanies(p, schema_has_company)]

\* rank_my_connections._fetch_candidate_features
fetch_candidate_features(pr, cand_ids) ==
    [p \in Range(cand_ids) |->
        [skills |-> {Lower(x) : x \in skills(p)},
         job_tokens |-> {Lower(x) : x \in jobTitleCanonTokens(p) \cup jobTitleTokens(p)},
         bp_skills |-> Coalesce(pr["Skills"][p].bridgePotential, Zero),
         bp_job |-> Coalesce(pr["Job"][p].bridgePotential, Zero)]]

\* rank_my_connections._ego_bridging_on_knows: the UNWIND over the
\* neighbour list returns no row for a person without neighbours inside
\* the ego network.
ego_bridging_on_knows(knowsRel, me_id) ==
    LET ego == KnowsNeighbours(knowsRel, me_id)
        neigh(p) == KnowsNeighbours(knowsRel, p) \cap ego
        invSum(p) == RSum([n \in neigh(p) |->
                             IF Cardinality(neigh(n)) > 0
                             THEN Rat(1, Cardinality(neigh(n))) ELSE Zero],
                          neigh(p))
    IN  [p \in {x \in ego : neigh(x) # {}} |->
            IF RSign(invSum(p)) > 0
            THEN RMul(Rat(1, Cardinality(neigh(p))), RInv(invSum(p)))
            ELSE Zero]

Get(values, k, dflt) == IF k \in DOMAIN values THEN values[k] ELSE dflt

RECURSIVE RMax(_)
RMax(S) ==
    LET x == CHOOSE y \in S : TRUE
    IN  IF S = {x} THEN x
        ELSE LET m == RMax(S \ {x}) IN IF RLt(m, x) THEN x ELSE m
RECURSIVE RMin(_)
RMin(S) ==
    LET x == CHOOSE y \in S : TRUE
    IN  IF S = {x} THEN x
        ELSE LET m == RMin(S \ {x}) IN IF RLt(x, m) THEN x ELSE m

\* rank_my_connections._minmax_on_subset
minmax_on_subset(values, subset) ==
    LET keys == Range(subset)
        sub == {Get(values, k, Zero) : k \in keys}
    IN  IF keys = {} THEN [k \in keys |-> Zero]
        ELSE LET mn == RMin(sub)
                 mx == RMax(sub)
             IN  IF RLe(mx, mn) THEN [k \in keys |-> Zero]
                 ELSE [k \in keys |->
                         RDiv(RSub(Get(values, k, Zero), mn), RSub(mx, mn))]

\* rank_my_connections._pinecone_similarity on a successful query: the
\* returned matches restricted to the allowed ids, scores as returned.
pinecone_similarity(matches, allowed_ids) ==
    [p \in DOMAIN matches \cap allowed_ids |-> matches[p]]

\* ---------------------------------------------------- ranker: scoring
\* round(x, 6): the nearest multiple of 10^-6, ties to the even one.  The
\* quotient is taken digit by digit so that no intermediate product leaves
\* the machine integer range.
RoundDigits == 6
RECURSIVE Pow10(_)
Pow10(k) == IF k = 0 THEN 1 ELSE 10 * Pow10(k - 1)
RECURSIVE LongDiv(_, _, _, _)
LongDiv(q, r, d, k) ==
    IF k = 0 THEN <<q, r>>
    ELSE LongDiv(q * 10 + ((r * 10) \div d), (r * 10) % d, d, k - 1)
Round6(x) ==
    LET n == Abs(x[1])
        d == x[2]
        qr == LongDiv(n \div d, n % d, d, RoundDigits)
        up == IF 2 * qr[2] > d THEN 1
              ELSE IF 2 * qr[2] < d THEN 0
              ELSE qr[1] % 2
        m == qr[1] + up
    IN  Rat(IF x[1] < 0 THEN -m ELSE m, Pow10(RoundDigits))

\* Python truth value of an Optional[float]
Truthy(x) == ~IsNull(x) /\ x[1] # 0

NoComponents ==
    [vec_sim |-> Zero, skill_match |-> Zero, job_match |-> Zero,
     struct_global |-> Zero, struct_ego |-> Zero, company_match |-> Zero]

\* rank_my_connections, the optional rescale of the scored list
RescaleNoCeiling(scored, rescale_top) ==
    IF Truthy(rescale_top) /\ scored # <<>>
    THEN LET mx == RMax({scored[i].score : i \in DOMAIN scored})
             max_score_val == IF mx[1] = 0 THEN One ELSE mx
         IN  IF RSign(max_score_val) > 0
             THEN [i \in DOMAIN scored |->
                     [scored[i] EXCEPT !.score = Round6(RDiv(@, max_score_val))]]
             ELSE scored
    ELSE scored
Rescale(scored, rescale_top) ==
    IF Truthy(rescale_top) /\ scored # <<>>
    THEN LET mx == RMax({scored[i].score : i \in DOMAIN scored})
             max_score_val == IF mx[1] = 0 THEN One ELSE mx
         IN  IF RSign(max_score_val) > 0
             THEN [i \in DOMAIN scored |->
                     [scored[i] EXCEPT !.score =
                         Round6(RMul(RDiv(@, max_score_val), rescale_top))]]
             ELSE scored
    ELSE scored

\* scored.sort(key=lambda r: r.score, reverse=True): stable, so entries
\* with equal scores keep their order.
RECURSIVE InsertByScore(_, _)
InsertByScore(sorted, r) ==
    IF sorted = <<>> THEN <<r>>
    ELSE IF RLt(Head(sorted).score, r.score) THEN <<r>> \o sorted
    ELSE <<Head(sorted)>> \o InsertByScore(Tail(sorted), r)
RECURSIVE SortByScoreDesc(_, _)
SortByScoreDesc(scored, acc) ==
    IF scored = <<>> THEN acc
    ELSE SortByScoreDesc(Tail(scored), InsertByScore(acc, Head(scored)))

\* scored[:top_k]
SliceTo(s, top_k) ==
    LET n == IF top_k >= 0
             THEN (IF top_k < Len(s) THEN top_k ELSE Len(s))
             ELSE (IF Len(s) + top_k > 0 THEN Len(s) + top_k ELSE 0)
    IN  SubSeq(s, 1, n)

\* rank_my_connections, from the rescale to the return: the scored list
\* as the rescale and the sort leave it, and the slice that is returned
FinishRanking(scored, rescale_top, top_k) ==
    CHOOSE fin \in {[ranked |-> ranked, people |-> SliceTo(ranked, top_k)] :
                       ranked \in {SortByScoreDesc(Rescale(scored, rescale_top), <<>>)}} :
        TRUE

\* rank_my_connections, steps 3 to the return, for a non-empty candidate
\* list: the components of every candidate, the weighted score rounded to
\* 6 decimals, then rescale, sort and slice.  The result carries the
\* scored list as the scoring loop built it, the list after the rescale
\* and the sort, and the returned people; name and title are left out of
\* a RankedPerson.
ScoreCandidates(top_k, weights, rescale_top, goals, goal_companies, candidate_ids, vec_sim, feats, struct_ego, cand_companies) ==
    LET w == IF Len(weights) = 5 THEN weights \o <<Zero>> ELSE weights
        struct_global ==
            minmax_on_subset([p \in DOMAIN feats |->
                                 RAdd(feats[p].bp_skills, feats[p].bp_job)],
                             candidate_ids)
        comps(p, sg) ==
            [vec_sim |-> Get(vec_sim, p, Zero),
             skill_match |->
                 jaccard({Lower(x) : x \in goals.goal_skills}, feats[p].skills),
             job_match |->
                 jaccard(goals.goal_job_tokens, expand_job_tokens(feats[p].job_tokens)),
             struct_global |-> Get(sg, p, Zero),
             struct_ego |-> Get(struct_ego, p, Zero),
             company_match |->
                 IF goal_companies # {}
                 THEN jaccard(goal_companies, Get(cand_companies, p, {}))
                 ELSE Zero]
        score(c) ==
            RAdd(RAdd(RAdd(RAdd(RAdd(RMul(w[1], c.vec_sim),
                                     RMul(w[2], c.skill_match)),
                                RMul(w[3], c.job_match)),
                           RMul(w[4], c.struct_global)),
                      RMul(w[5], c.struct_ego)),
                 RMul(w[6], c.company_match))
    IN  CHOOSE r \in
            {[status |-> "ok", scored |-> scored] @@
                 FinishRanking(scored, rescale_top, top_k) :
               scored \in
                 {[i \in DOMAIN candidate_ids |->
                     CHOOSE e \in {[id |-> candidate_ids[i],
                                    score |-> Round6(score(c)),
                                    components |-> c] :
                                      c \in {comps(candidate_ids[i], sg)}} : TRUE] :
                    sg \in {struct_global}}} : TRUE

\* rank_my_connections, steps 2 to 5: no candidates, a failed vector
\* query (it raises), or the features of the candidates.
RankCandidates(knowsRel, pr, schema_has_company, me_id, top_k, weights, rescale_top, vec, goals, goal_companies, candidate_ids) ==
    IF candidate_ids = <<>>
    THEN [status |-> "ok", scored |-> <<>>, ranked |-> <<>>, people |-> <<>>]
    ELSE IF ~vec.ok
    THEN [status |-> "RuntimeError", scored |-> <<>>, ranked |-> <<>>, people |-> <<>>]
    ELSE ScoreCandidates(top_k, weights, rescale_top, goals, goal_companies, candidate_ids,
             pinecone_similarity(vec.matches, Range(candidate_ids)),
             fetch_candidate_features(pr, candidate_ids),
             minmax_on_subset(ego_bridging_on_knows(knowsRel, me_id), candidate_ids),
             fetch_candidate_companies(candidate_ids, schema_has_company))

\* rank_my_connections, step 2: the candidates for the parsed goals
RankWithGoals(knowsRel, pr, schema_has_company, me_id, top_k, weights, prefilter, rescale_top, vec, goals, goal_companies) ==
    RankCandidates(knowsRel, pr, schema_has_company, me_id, top_k, weights, rescale_top,
                   vec, goals, goal_companies,
                   fetch_candidate_connections(knowsRel, me_id,
                       IF prefilter THEN goals.goal_skills ELSE {},
                       IF prefilter THEN goals.goal_job_tokens ELSE {},
                       IF prefilter THEN goal_companies ELSE {},
                       schema_has_company))

\* rank_my_connections: the lexicons are those of the caches after the
\* fill step; vec is the vector store's answer (ok = FALSE when the query
\* raised).
rank_my_connections(knowsRel, pr, all_skills, all_companies, schema_has_company, me_id, query_text, top_k, weights, prefilter, rescale_top, vec) ==
    IF Len(weights) # 5 /\ Len(weights) # 6
    THEN [status |-> "ValueError", scored |-> <<>>, ranked |-> <<>>, people |-> <<>>]
    ELSE RankWithGoals(knowsRel, pr, schema_has_company, me_id, top_k, weights, prefilter,
                       rescale_top, vec,
                       parse_query(query_text, all_skills),
                       fuzzy_normalize_companies(
                           parse_company_queries(query_text, all_companies),
                           all_companies))

\* ---------------------------------------------------- title canonicalizer
\* str.capitalize() (every = FALSE) and str.title() (every = TRUE): the
\* text in lower case with a capital for the first character, or for every
\* letter that follows a character that is no letter.
UpperFirst(s, every) ==
    LET low == Lower(s)
        letters == Range(LowerChars)
        up(c) == IF c \in letters
                 THEN UpperChars[CHOOSE i \in DOMAIN LowerChars : LowerChars[i] = c]
                 ELSE c
    IN  [i \in DOMAIN low |->
            IF i = 1 \/ (every /\ low[i - 1] \notin letters) THEN up(low[i]) ELSE low[i]]

\* assign_job_titles._load_title_canon_mapping.categorize_raw: the first
\* rule of the cascade with a keyword in the lower-cased title names the
\* category, which is returned with every word capitalized and the blanks
\* removed ('student' and 'unemployed' are returned as they are).
categorize_raw(t) ==
    LET base == Strip(Lower(t))
        any(ks) == \E k \in ks : Contains(base, k)
        cat ==
            IF any({<<"c", "o", "-", "f", "o", "u", "n", "d", "e", "r">>,
             <<"c", "o", "f", "o", "u", "n", "d", "e", "r">>,
             <<"f", "o", "u", "n", "d", "e", "r">>, <<"c", "e", "o">>,
             <<"c", "h", "i", "e", "f", " ", "e", "x", "e", "c", "u", "t", "i", "v", "e", " ", "o", "f", "f", "i", "c", "e", "r">>})
            THEN <<"f", "o", "u", "n", "d", "e", "r", "/", "c", "e", "o">>
            ELSE IF any({
             <<"c", "h", "i", "e", "f", " ", "t", "e", "c", "h", "n", "o", "l", "o", "g", "y", " ", "o", "f", "f", "i", "c", "e", "r">>,
             <<"c", "t", "o">>,
             <<"c", "h", "i", "e", "f", " ", "o", "p", "e", "r", "a", "t", "i", "n", "g", " ", "o", "f", "f", "i", "c", "e", "r">>,
             <<"s", "v", "p">>,
             <<"v", "i", "c", "e", " ", "p", "r", "e", "s", "i", "d", "e", "n", "t">>})
            THEN <<"e", "x", "e", "c", "u", "t", "i", "v", "e">>
            ELSE IF any({<<"r", "e", "c", "r", "u", "i", "t">>,
             <<"t", "a", "l", "e", "n", "t", " ", "a", "c", "q", "u", "i", "s", "i", "t", "i", "o", "n">>,
             <<"t", "e", "c", "h", "n", "i", "c", "a", "l", " ", "r", "e", "c", "r", "u", "i", "t", "e", "r">>,
             <<"r", "e", "c", "r", "u", "i", "t", "e", "r">>, <<"h", "r", "b", "p">>,
             <<"h", "u", "m", "a", "n", " ", "r", "e", "s", "o", "u", "r", "c", "e", "s">>,
             <<"h", "r", " ">>, <<" ", "h", "r">>, <<"p", "e", "o", "p", "l", "e">>})
            THEN <<"r", "e", "c", "r", "u", "i", "t", "i", "n", "g", "/", "h", "r">>
            ELSE IF any({<<"p", "r", "o", "d", "u", "c", "t">>})
            THEN <<"p", "r", "o", "d", "u", "c", "t">>
            ELSE IF any({<<"d", "e", "s", "i", "g", "n">>}) /\ ~any({<<"p", "r", "o", "d", "u", "c", "t">>})
            THEN <<"d", "e", "s", "i", "g", "n">>
            ELSE IF any({<<"m", "l", " ">>, <<" ", "m", "l">>,
             <<"m", "a", "c", "h", "i", "n", "e", " ", "l", "e", "a", "r", "n", "i", "n", "g">>,
             <<"a", "i", "/">>, <<"a", "i", " ">>, <<" ", "a", "i">>,
             <<"a", "r", "t", "i", "f", "i", "c", "i", "a", "l", " ", "i", "n", "t", "e", "l", "l", "i", "g", "e", "n", "c", "e">>,
             <<"a", "p", "p", "l", "i", "e", "d", " ", "s", "c", "i", "e", "n", "t", "i", "s", "t">>,
             <<"r", "e", "s", "e", "a", "r", "c", "h", " ", "s", "c", "i", "e", "n", "t", "i", "s", "t">>,
             <<"d", "a", "t", "a", " ", "a", "n", "d", " ", "a", "p", "p", "l", "i", "e", "d", " ", "s", "c", "i", "e", "n", "t", "i", "s", "t">>})
            THEN (IF any({<<"d", "a", "t", "a", " ", "s", "c", "i", "e", "n", "t", "i", "s", "t">>})
                  THEN (IF any({<<"m", "l">>,
             <<"m", "a", "c", "h", "i", "n", "e", " ", "l", "e", "a", "r", "n", "i", "n", "g">>,
             <<"a", "i">>})
                        THEN <<"m", "l", " ", "e", "n", "g", "i", "n", "e", "e", "r">> ELSE <<"d", "a", "t", "a", " ", "s", "c", "i", "e", "n", "t", "i", "s", "t">>)
                  ELSE IF any({<<"i", "n", "t", "e", "r", "n">>, <<"t", "r", "a", "i", "n", "e", "e">>,
             <<"c", "o", "-", "o", "p">>, <<"c", "o", " ", "o", "p">>})
                  THEN <<"i", "n", "t", "e", "r", "n">>
                  ELSE <<"m", "l", " ", "e", "n", "g", "i", "n", "e", "e", "r">>)
            ELSE IF any({<<"d", "a", "t", "a", " ", "s", "c", "i", "e", "n", "t", "i", "s", "t">>})
            THEN <<"d", "a", "t", "a", " ", "s", "c", "i", "e", "n", "t", "i", "s", "t">>
            ELSE IF any({<<"d", "a", "t", "a", " ", "e", "n", "g", "i", "n", "e", "e", "r">>,
             <<"b", "i", "g", " ", "d", "a", "t", "a", " ", "e", "n", "g", "i", "n", "e", "e", "r">>,
             <<"c", "l", "o", "u", "d", " ", "d", "a", "t", "a", " ", "e", "n", "g", "i", "n", "e", "e", "r">>})
            THEN <<"d", "a", "t", "a", " ", "e", "n", "g", "i", "n", "e", "e", "r">>
            ELSE IF any({<<"a", "n", "a", "l", "y", "s", "t">>})
            THEN <<"a", "n", "a", "l", "y", "s", "t">>
            ELSE IF any({<<"d", "e", "v", "o", "p", "s">>,
             <<"s", "i", "t", "e", " ", "r", "e", "l", "i", "a", "b", "i", "l", "i", "t", "y", " ", "e", "n", "g", "i", "n", "e", "e", "r">>,
             <<"s", "r", "e">>,
             <<"s", "y", "s", "t", "e", "m", " ", "e", "n", "g", "i", "n", "e", "e", "r", " ", "-", " ", "d", "e", "v", "o", "p", "s">>})
            THEN <<"d", "e", "v", "o", "p", "s", "/", "s", "r", "e">>
            ELSE IF any({
             <<"s", "o", "f", "t", "w", "a", "r", "e", " ", "e", "n", "g", "i", "n", "e", "e", "r">>,
             <<"s", "d", "e">>, <<"d", "e", "v", "e", "l", "o", "p", "e", "r">>,
             <<"p", "r", "o", "g", "r", "a", "m", "m", "e", "r">>,
             <<"m", "e", "m", "b", "e", "r", " ", "o", "f", " ", "t", "e", "c", "h", "n", "i", "c", "a", "l", " ", "s", "t", "a", "f", "f">>,
             <<"m", "o", "t", "s">>, <<"m", "t", "s">>,
             <<".", "n", "e", "t", " ", "d", "e", "v", "e", "l", "o", "p", "e", "r">>,
             <<"f", "u", "l", "l", " ", "s", "t", "a", "c", "k">>,
             <<"f", "r", "o", "n", "t", "e", "n", "d">>,
             <<"b", "a", "c", "k", "e", "n", "d">>,
             <<"r", "e", "a", "c", "t", " ", "d", "e", "v", "e", "l", "o", "p", "e", "r">>,
             <<"z", "o", "h", "o", " ", "d", "e", "v", "e", "l", "o", "p", "e", "r">>,
             <<"s", "o", "l", "u", "t", "i", "o", "n", "s", " ", "e", "n", "g", "i", "n", "e", "e", "r">>,
             <<"s", "o", "f", "t", "w", "a", "r", "e", " ", "q", "a", " ", "e", "n", "g", "i", "n", "e", "e", "r">>,
             <<"s", "o", "f", "t", "w", "a", "r", "e", " ", "q", "u", "a", "l", "i", "t", "y", " ", "e", "n", "g", "i", "n", "e", "e", "r">>,
             <<"s", "o", "f", "t", "w", "a", "r", "e", " ", "p", "r", "o", "j", "e", "c", "t", " ", "d", "e", "v", "e", "l", "o", "p", "e", "r">>,
             <<"s", "o", "f", "t", "w", "a", "r", "e", " ", "d", "e", "v", "e", "l", "o", "p", "m", "e", "n", "t", " ", "e", "n", "g", "i", "n", "e", "e", "r">>,
             <<"s", "o", "f", "t", "w", "a", "r", "e", " ", "e", "n", "g", "i", "n", "e", "e", "r", "i", "n", "g", " ", "m", "a", "n", "a", "g", "e", "r">>,
             <<"s", "o", "f", "t", "w", "a", "r", "e", " ", "e", "n", "g", "i", "n", "e", "e", "r", "i", "n", "g", " ", "s", "p", "e", "c", "i", "a", "l", "i", "s", "t">>})
            THEN <<"s", "o", "f", "t", "w", "a", "r", "e", " ", "e", "n", "g", "i", "n", "e", "e", "r">>
            ELSE IF any({<<"c", "l", "o", "u", "d", " ", "e", "n", "g", "i", "n", "e", "e", "r">>,
             <<"c", "l", "o", "u", "d", " ", "s", "u", "p", "p", "o", "r", "t", " ", "e", "n", "g", "i", "n", "e", "e", "r">>,
             <<"a", "z", "u", "r", "e", " ", "c", "l", "o", "u", "d", " ", "e", "n", "g", "i", "n", "e", "e", "r">>})
            THEN <<"c", "l", "o", "u", "d", " ", "e", "n", "g", "i", "n", "e", "e", "r">>
            ELSE IF any({<<"s", "e", "c", "u", "r", "i", "t", "y">>})
            THEN <<"s", "e", "c", "u", "r", "i", "t", "y">>
            ELSE IF any({
             <<"s", "o", "l", "u", "t", "i", "o", "n", "s", " ", "a", "r", "c", "h", "i", "t", "e", "c", "t">>,
             <<"a", "r", "c", "h", "i", "t", "e", "c", "t">>})
            THEN <<"a", "r", "c", "h", "i", "t", "e", "c", "t">>
            ELSE IF any({<<"q", "u", "a", "l", "i", "t", "y">>, <<"q", "a", " ">>})
            THEN <<"q", "a">>
            ELSE IF any({<<"c", "o", "n", "s", "u", "l", "t", "a", "n", "t">>,
             <<"a", "d", "v", "i", "s", "o", "r">>})
            THEN <<"c", "o", "n", "s", "u", "l", "t", "a", "n", "t", "/", "a", "d", "v", "i", "s", "o", "r">>
            ELSE IF any({<<"m", "a", "n", "a", "g", "e", "r">>,
             <<"p", "r", "o", "g", "r", "a", "m", " ", "m", "a", "n", "a", "g", "e", "r">>,
             <<"p", "r", "o", "j", "e", "c", "t", " ", "m", "a", "n", "a", "g", "e", "r">>,
             <<"o", "p", "e", "r", "a", "t", "i", "o", "n", "s", " ", "m", "a", "n", "a", "g", "e", "r">>,
             <<"l", "e", "a", "d", " ">>, <<"l", "e", "a", "d", ",">>,
             <<"l", "e", "a", "d", "-">>, <<"l", "e", "a", "d", "/">>})
            THEN <<"m", "a", "n", "a", "g", "e", "m", "e", "n", "t">>
            ELSE IF any({<<"m", "a", "r", "k", "e", "t", "i", "n", "g">>, <<"s", "a", "l", "e", "s">>,
             <<"b", "u", "s", "i", "n", "e", "s", "s", " ", "d", "e", "v", "e", "l", "o", "p", "m", "e", "n", "t">>,
             <<"a", "c", "c", "o", "u", "n", "t", " ", "e", "x", "e", "c", "u", "t", "i", "v", "e">>,
             <<"p", "u", "b", "l", "i", "c", " ", "r", "e", "l", "a", "t", "i", "o", "n", "s">>})
            THEN <<"s", "a", "l", "e", "s", "/", "m", "a", "r", "k", "e", "t", "i", "n", "g">>
            ELSE IF any({<<"p", "r", "o", "f", "e", "s", "s", "o", "r">>,
             <<"l", "e", "c", "t", "u", "r", "e", "r">>,
             <<"t", "e", "a", "c", "h", "i", "n", "g", " ", "a", "s", "s", "i", "s", "t", "a", "n", "t">>,
             <<"g", "r", "a", "d", "u", "a", "t", "e">>,
             <<"a", "d", "j", "u", "n", "c", "t">>,
             <<"v", "i", "s", "i", "t", "i", "n", "g", " ", "g", "r", "a", "d", "u", "a", "t", "e", " ", "s", "t", "u", "d", "e", "n", "t">>,
             <<"s", "t", "u", "d", "e", "n", "t", " ", "r", "e", "s", "e", "a", "r", "c", "h">>,
             <<"f", "a", "c", "u", "l", "t", "y">>})
            THEN <<"a", "c", "a", "d", "e", "m", "i", "c">>
            ELSE IF any({<<"r", "e", "s", "e", "a", "r", "c", "h">>})
            THEN <<"r", "e", "s", "e", "a", "r", "c", "h">>
            ELSE IF any({<<"e", "n", "g", "i", "n", "e", "e", "r">>})
            THEN <<"e", "n", "g", "i", "n", "e", "e", "r">>
            ELSE IF any({<<"i", "n", "t", "e", "r", "n">>, <<"t", "r", "a", "i", "n", "e", "e">>,
             <<"c", "o", "-", "o", "p">>, <<"c", "o", " ", "o", "p">>})
            THEN <<"i", "n", "t", "e", "r", "n">>
            ELSE IF any({<<"c", "u", "s", "t", "o", "m", "e", "r">>, <<"s", "u", "p", "p", "o", "r", "t">>,
             <<"a", "s", "s", "i", "s", "t", "a", "n", "t">>})
            THEN <<"s", "u", "p", "p", "o", "r", "t">>
            ELSE IF any({<<"n", "e", "t", "w", "o", "r", "k">>})
            THEN <<"n", "e", "t", "w", "o", "r", "k", " ", "e", "n", "g", "i", "n", "e", "e", "r">>
            ELSE IF any({<<"s", "u", "p", "p", "l", "y", " ", "c", "h", "a", "i", "n">>})
            THEN <<"s", "u", "p", "p", "l", "y", " ", "c", "h", "a", "i", "n">>
            ELSE IF any({<<"q", "u", "a", "n", "t", "i", "t", "a", "t", "i", "v", "e">>,
             <<"i", "n", "v", "e", "s", "t", "m", "e", "n", "t", " ", "b", "a", "n", "k", "i", "n", "g">>,
             <<"f", "i", "n", "a", "n", "c", "e">>,
             <<"f", "i", "n", "a", "n", "c", "i", "a", "l">>})
            THEN <<"f", "i", "n", "a", "n", "c", "e", "/", "q", "u", "a", "n", "t">>
            ELSE IF any({<<"h", "u", "m", "a", "n", " ", "r", "e", "s", "o", "u", "r", "c", "e", "s">>}) \/ base = <<"h", "r">>
            THEN <<"r", "e", "c", "r", "u", "i", "t", "i", "n", "g", "/", "h", "r">>
            ELSE IF any({<<"w", "r", "i", "t", "e", "r">>,
             <<"c", "o", "n", "t", "e", "n", "t", " ", "c", "r", "e", "a", "t", "o", "r">>,
             <<"w", "r", "i", "t", "i", "n", "g">>})
            THEN <<"c", "o", "n", "t", "e", "n", "t", "/", "w", "r", "i", "t", "i", "n", "g">>
            ELSE IF any({<<"o", "p", "e", "r", "a", "t", "i", "o", "n", "s">>, <<"a", "d", "m", "i", "n">>,
             <<"a", "d", "m", "i", "n", "i", "s", "t", "r", "a", "t", "o", "r">>})
            THEN <<"o", "p", "e", "r", "a", "t", "i", "o", "n", "s">>
            ELSE <<"o", "t", "h", "e", "r">>
    IN  IF base \in {<<"s", "t", "u", "d", "e", "n", "t">>, <<"u", "n", "e", "m", "p", "l", "o", "y", "e", "d">>} THEN base
        ELSE SelectSeq(UpperFirst(cat, TRUE), LAMBDA c : c # " ")

\* assign_job_titles._load_title_canon_mapping for the job titles of the
\* ingestion dataset (none when data/enriched_people.json is missing): the
\* key is the lower-cased, stripped title.
load_title_canon_mapping(titles) ==
    [key \in {Strip(Lower(c)) : c \in titles} \ {<<>>} |-> categorize_raw(key)]

\* assign_job_titles.canonicalize: (canonCategoryCamel, short, snake)
canonicalize(mapping, title) ==
    LET lower_key == Strip(Lower(title))
        alnum(s, upper) ==
            [i \in DOMAIN s |->
                IF s[i] \in AlnumChars \/ (upper /\ s[i] \in Range(UpperChars))
                THEN s[i] ELSE " "]
    IN  IF lower_key \in DOMAIN mapping
        THEN LET canon_category == mapping[lower_key]
                 words == SplitOn(alnum(canon_category, TRUE), {" "}, <<>>, <<>>)
             IN  [canon |-> canon_category,
                  short |-> Lower(IF Len(words) >= 2 THEN JoinWith(SubSeq(words, 1, 2), <<" ">>)
                                  ELSE IF words # <<>> THEN words[1] ELSE canon_category),
                  snake |-> JoinWith(SplitOn(alnum(Lower(canon_category), FALSE),
                                             {" "}, <<>>, <<>>), <<"_">>)]
        ELSE LET cleaned == JoinWith(SplitOn(alnum(lower_key, FALSE), {" "}, <<>>, <<>>), <<" ">>)
                 t == IF cleaned = <<>> THEN <<"u", "n", "k", "n", "o", "w", "n">> ELSE cleaned
                 parts == SplitOn(t, {" "}, <<>>, <<>>)
             IN  [canon |-> IF parts = <<>> THEN <<"U", "n", "k", "n", "o", "w", "n">>
                            ELSE JoinWith([i \in DOMAIN parts |-> UpperFirst(parts[i], FALSE)],
                                          <<>>),
                  short |-> IF Len(parts) >= 2 THEN JoinWith(SubSeq(parts, 1, 2), <<" ">>)
                            ELSE t,
                  snake |-> JoinWith(parts, <<"_">>)]

VARIABLES
    similar,      \* SIMILAR edges: [<<src, dst>> -> [weight, sharedSkills, jaccard]]
    similarJob,   \* SIMILAR_JOB edges: [<<src, dst>> -> [weight]]
    augments,     \* embedding augmentations applied since the last clearing rebuild
    lastBuild,    \* arguments of the latest build_similar_edges call, <<>> once
                  \* another call has touched the SIMILAR layer, and how many
                  \* times in a row the call was made with these arguments
    props,        \* per layer and person: the properties the metrics engine writes
    run,          \* per worker thread: the step of the POST /recompute request it
                  \* serves, the body, and what the metrics run holds in memory
    knows,        \* KNOWS relationships, a set of <<src, dst>>
    request,      \* the ranking request being served
    scored,       \* the scored list of the ranking call, before the rescale
    result,       \* the call made and its outcome: [op, status, vec, ranked, people],
                  \* ranked the scored list at the return, people the slice returned
    CACHE_SKILLS,        \* <<>> (None) or <<lexicon>>
    CACHE_COMPANIES,     \* <<>> (None) or <<lexicon>>
    SCHEMA_HAS_COMPANY,  \* <<>> (None) or <<flag>>
    TITLE_CANON_MAP,     \* the title lookup of assign_job_titles, built at import
    events,       \* history of the ranking process: the requests started and
                  \* returned and the loads of the lexicon caches, in order
    db            \* the DatabaseManager of the analyzer service, the startup
                  \* that initializes it, the portfolio_items table and the
                  \* create requests being served

simVars == <<similar, similarJob, augments, lastBuild, props, run>>
rankVars == <<knows, request, scored, result,
              CACHE_SKILLS, CACHE_COMPANIES, SCHEMA_HAS_COMPANY, TITLE_CANON_MAP,
              events, db>>
vars == <<similar, similarJob, augments, lastBuild, props, run, knows, request, scored,
          result, CACHE_SKILLS, CACHE_COMPANIES, SCHEMA_HAS_COMPANY, TITLE_CANON_MAP,
          events, db>>

\* ------------------------------------------------------ ranking requests
\* Defaults of rank_my_connections' signature
DefaultWeights == <<Rat(2, 5), Rat(9, 50), Rat(7, 50), Rat(7, 50), Rat(9, 100), Rat(1, 20)>>
DefaultTopK == 20
DefaultRescaleTop == Rat(4, 5)

Q_empty == <<>>
Q_python_engineers == <<"P", "y", "t", "h", "o", "n", " ", "e", "n", "g", "i", "n", "e", "e", "r", "s">>
Q_engineer_at_google == <<"e", "n", "g", "i", "n", "e", "e", "r", " ", "a", "t", " ", "G", "o", "o", "g", "l", "e">>
Q_at_gogle == <<"a", "t", " ", "g", "o", "g", "l", "e">>
Q_software_engineers_with_sql == <<"s", "o", "f", "t", "w", "a", "r", "e", " ", "e", "n", "g", "i", "n", "e", "e", "r", "s", " ", "w", "i", "t", "h", " ", "s", "q", "l">>

DefaultRequest ==
    [me_id |-> 1, query |-> Q_empty, top_k |-> DefaultTopK, weights |-> DefaultWeights,
     prefilter |-> TRUE, rescale_top |-> DefaultRescaleTop, debug |-> FALSE]
NoMatches == [ok |-> TRUE, matches |-> <<>>]
NoResult ==
    [op |-> "none", status |-> "none", vec |-> NoMatches, ranked |-> <<>>, people |-> <<>>]

\* ------------------------------------------------- similarity / metrics
\* The threads of the server's pool that serve POST /recompute, the
\* defaults of the body and a thread that serves no request.
Workers == {"w1", "w2"}
DefaultPayload ==
    [min_shared_skills |-> 2, weight_mode |-> "count", boost_company |-> One,
     boost_school |-> Rat(1, 2), exclude |-> {}, embed_top_k |-> 0, embed_scale |-> One]
IdleRuns ==
    [w \in Workers |->
        [pc |-> "idle", layer |-> "Skills", payload |-> DefaultPayload,
         rels |-> {}, before |-> <<>>, rows |-> <<>>]]

\* DatabaseManager.__init__: no pool yet; initialize has not been called,
\* no request has been served.
NoDb ==
    [pc |-> "new", pool |-> FALSE, cfg |-> <<>>, attempt |-> 0, delay |-> Zero,
     tries |-> <<>>, waits |-> <<>>, rows |-> <<>>, payload |-> <<>>, rets |-> <<>>,
     calls |-> 0, task |-> [w \in Workers |-> [pc |-> "idle"]]]

InitSim ==
    /\ similar = NoEdges
    /\ similarJob = NoEdges
    /\ augments = 0
    /\ lastBuild = [args |-> <<>>, runs |-> 0]
    /\ props = [L \in Layers |-> [p \in Persons |-> NoProps]]
    /\ run = IdleRuns
    /\ events = <<>>
    /\ db = NoDb
    /\ TITLE_CANON_MAP = <<>>
    /\ knows = {}
    /\ request = DefaultRequest
    /\ scored = <<>>
    /\ result = NoResult
    /\ CACHE_SKILLS = <<>>
    /\ CACHE_COMPANIES = <<>>
    /\ SCHEMA_HAS_COMPANY = <<>>

BuildSimilarEdges(min_shared, mode, bc, bs) ==
    LET args == <<min_shared, mode, bc, bs>>
        again == lastBuild.args = args
    IN  /\ again => lastBuild.runs < MaxRepeat
        /\ similar' = build_similar_edges(similar, min_shared, mode, bc, bs, TRUE)
        /\ augments' = 0
        /\ lastBuild' = [args |-> args, runs |-> IF again THEN lastBuild.runs + 1 ELSE 1]
        /\ UNCHANGED <<similarJob, props, run>>
        /\ UNCHANGED rankVars

AugmentWithEmbeddingEdges(top_k, scale, failed) ==
    /\ augments < MaxAugment
    /\ similar' = augment_with_embedding_edges(similar, top_k, scale, failed)
    /\ augments' = augments + 1
    /\ lastBuild' = [args |-> <<>>, runs |-> 0]
    /\ UNCHANGED <<similarJob, props, run>>
    /\ UNCHANGED rankVars

BuildSimilarJobEdgesGrouped(w) ==
    /\ similarJob' = build_similar_job_edges_grouped(w)
    /\ UNCHANGED <<similar, augments, lastBuild, props, run>>
    /\ UNCHANGED rankVars

LayerEdges(L) == IF L = "Skills" THEN similar ELSE similarJob

RunMetricsGeneric(L, exclude, strict) ==
    /\ props' = [props EXCEPT ![L] = run_metrics_generic(props[L], LayerEdges(L), exclude, strict)]
    /\ UNCHANGED <<similar, similarJob, augments, lastBuild, run>>
    /\ UNCHANGED rankVars

NextSim ==
    \/ \E m \in {1, 2}, mode \in {"count", "jaccard"},
          bc \in {Zero, One}, bs \in {Zero, Rat(1, 2)} :
           BuildSimilarEdges(m, mode, bc, bs)
    \/ \E k \in {0, 1, 3}, sc \in {One, Rat(-1, 1)}, f \in {{}, {1}} :
           AugmentWithEmbeddingEdges(k, sc, f)
    \/ \E w \in {One, Rat(-1, 1)} : BuildSimilarJobEdgesGrouped(w)

SpecSim == InitSim /\ [][NextSim]_vars

\* A rebuild as POST /recompute runs it (delete, base query, company boost,
\* school boost, embedding augmentation) in which the query of one step is
\* sent a second time right after the first, as a caller does that saw the
\* step fail after its write was committed.
RebuildWithRetry(min_shared, mode, bc, bs, top_k, scale, retried) ==
    LET e1 == BaseEdges(NoEdges, min_shared, mode)
        e2 == IF retried = "base" THEN BaseEdges(e1, min_shared, mode) ELSE e1
        e3 == IF RSign(bc) > 0
              THEN BoostEdges(e2, [p \in Persons |-> worked_at(p)], bc) ELSE e2
        e4 == IF RSign(bc) > 0 /\ retried = "company"
              THEN BoostEdges(e3, [p \in Persons |-> worked_at(p)], bc) ELSE e3
        e5 == IF RSign(bs) > 0
              THEN BoostEdges(e4, [p \in Persons |-> attended(p)], bs) ELSE e4
        e6 == IF RSign(bs) > 0 /\ retried = "school"
              THEN BoostEdges(e5, [p \in Persons |-> attended(p)], bs) ELSE e5
        e7 == augment_with_embedding_edges(e6, top_k, scale, {})
    IN /\ similar' = IF retried = "augment"
                     THEN augment_with_embedding_edges(e7, top_k, scale, {}) ELSE e7
       /\ augments' = IF top_k > 0 THEN 1 ELSE 0
       /\ lastBuild' = [args |-> <<>>, runs |-> 0]
       /\ UNCHANGED <<similarJob, props, run>>
       /\ UNCHANGED rankVars

NextRetry ==
    \/ \E m \in {1, 2}, mode \in {"count", "jaccard"}, bc \in {Zero, One},
          bs \in {Zero, Rat(1, 2)}, k \in {0, 1}, sc \in {Rat(1, 2)},
          retried \in {"base", "company", "school", "augment"} :
           RebuildWithRetry(m, mode, bc, bs, k, sc, retried)
    \/ \E w \in {One, Rat(1, 2)} : BuildSimilarJobEdgesGrouped(w)

SpecRetry == InitSim /\ [][NextRetry]_vars

\* Metrics runs over the layers as the rebuild steps leave them.
NextMetrics ==
    \/ \E m \in {1, 2}, bc \in {Zero, One} :
           BuildSimilarEdges(m, "count", bc, Zero)
    \/ BuildSimilarJobEdgesGrouped(One)
    \/ \E L \in Layers, ex \in {{}, {4}}, strict \in BOOLEAN :
           RunMetricsGeneric(L, ex, strict)

SpecMetrics == InitSim /\ [][NextMetrics]_vars

\* ------------------------------------------------------------- ranking
\* The graph as precompute_graph.main leaves it with its default arguments.
PrecomputedSimilar == build_similar_edges(NoEdges, 2, "count", One, Rat(1, 2), TRUE)
PrecomputedSimilarJob == build_similar_job_edges_grouped(One)
PrecomputedProps ==
    [L \in Layers |->
        run_metrics_generic([p \in Persons |-> NoProps],
                            IF L = "Skills" THEN PrecomputedSimilar
                            ELSE PrecomputedSimilarJob,
                            {}, FALSE)]

KnowsFixtures ==
    {{<<1, 2>>, <<1, 3>>, <<2, 3>>},
     {<<1, 2>>, <<2, 1>>, <<1, 4>>, <<3, 4>>}}
\* Answers of the vector store to the query: it failed, cosine scores for
\* everybody, inner-product scores for two persons.
VecResponses ==
    {[ok |-> FALSE, matches |-> <<>>],
     [ok |-> TRUE,
      matches |-> [p \in Persons |->
                      CASE p = 1 -> Rat(9, 10)
                        [] p = 2 -> Rat(1, 2)
                        [] p = 3 -> Rat(-1, 5)
                        [] p = 4 -> Rat(3, 10)
                        [] OTHER -> Rat(1, 10)]],
     [ok |-> TRUE,
      matches |-> [p \in {2, 4} |-> IF p = 2 THEN Rat(6, 5) ELSE Rat(1, 5)]]}

\* The arguments of a call: five queries, a negative, a zero, a small and
\* the default top_k, six, five and one weights, rescale_top None or default.
InitRank ==
    /\ similar = PrecomputedSimilar
    /\ similarJob = PrecomputedSimilarJob
    /\ augments = 0
    /\ lastBuild = [args |-> <<2, "count", One, Rat(1, 2)>>, runs |-> 1]
    /\ props = PrecomputedProps
    /\ run = IdleRuns
    /\ events = <<>>
    /\ db = NoDb
    /\ TITLE_CANON_MAP = <<>>
    /\ knows \in KnowsFixtures
    /\ request \in
          [me_id : Persons,
           query : {Q_empty, Q_python_engineers, Q_engineer_at_google, Q_at_gogle,
                    Q_software_engineers_with_sql},
           top_k : {-1, 0, 2, DefaultTopK},
           weights : {DefaultWeights, <<One, Zero, Zero, Zero, Zero>>, <<One>>},
           prefilter : BOOLEAN,
           rescale_top : {NullR, DefaultRescaleTop},
           debug : BOOLEAN]
    /\ scored = <<>>
    /\ result = NoResult
    /\ CACHE_SKILLS = <<>>
    /\ CACHE_COMPANIES = <<>>
    /\ SCHEMA_HAS_COMPANY = <<>>

\* rank_my_connections, step 0: the caches as the call leaves them
FilledSkills == IF CACHE_SKILLS = <<>> THEN <<fetch_all_skills>> ELSE CACHE_SKILLS
FilledSchema ==
    IF SCHEMA_HAS_COMPANY = <<>> THEN <<detect_company_schema>> ELSE SCHEMA_HAS_COMPANY
FilledCompanies ==
    IF CACHE_COMPANIES = <<>> THEN <<fetch_all_companies(FilledSchema[1])>>
    ELSE CACHE_COMPANIES

\* One call of rank_my_connections on the current graph and caches.
Call(me_id, query_text, top_k, weights, prefilter, rescale_top, vec) ==
    rank_my_connections(knows, props, FilledSkills[1], FilledCompanies[1], FilledSchema[1],
                        me_id, query_text, top_k, weights, prefilter, rescale_top, vec)

FillCaches(weights) ==
    IF Len(weights) = 5 \/ Len(weights) = 6
    THEN /\ CACHE_SKILLS' = FilledSkills
         /\ SCHEMA_HAS_COMPANY' = FilledSchema
         /\ CACHE_COMPANIES' = FilledCompanies
    ELSE UNCHANGED <<CACHE_SKILLS, SCHEMA_HAS_COMPANY, CACHE_COMPANIES>>

\* A direct call rank_my_connections(me_id, query, top_k, weights, ...,
\* prefilter, rescale_top) with the request's values (debug is a field of
\* the HTTP body only).
RankMyConnections(vec) ==
    /\ result.op = "none"
    /\ ~request.debug
    /\ \E r \in {Call(request.me_id, request.query, request.top_k, request.weights,
                       request.prefilter, request.rescale_top, vec)} :
          /\ result' = [op |-> "rank_my_connections", status |-> r.status,
                        vec |-> vec, ranked |-> r.ranked, people |-> r.people]
          /\ scored' = r.scored
    /\ FillCaches(request.weights)
    /\ UNCHANGED <<TITLE_CANON_MAP, events, db, knows, request>>
    /\ UNCHANGED simVars

\* app.rank_connections (POST /rank-connections): the call is made with
\* me_id, query and top_k of the request; with debug set the handler then
\* calls _fetch_candidate_connections with one argument too few.  The
\* body carries five or six weight fields.
RankConnections(vec) ==
    /\ result.op = "none"
    /\ Len(request.weights) >= 5
    /\ \E r \in {Call(request.me_id, request.query, request.top_k, DefaultWeights,
                       TRUE, DefaultRescaleTop, vec)} :
          \E status \in {IF r.status # "ok" THEN r.status
                         ELSE IF request.debug THEN "TypeError" ELSE "ok"} :
             /\ result' = [op |-> "rank_connections", status |-> status, vec |-> vec,
                           ranked |-> r.ranked,
                           people |-> IF status = "ok" THEN r.people ELSE <<>>]
             /\ scored' = r.scored
    /\ FillCaches(DefaultWeights)
    /\ UNCHANGED <<TITLE_CANON_MAP, events, db, knows, request>>
    /\ UNCHANGED simVars

NextRank ==
    \/ \E vec \in VecResponses : RankMyConnections(vec)
    \/ \E vec \in VecResponses : RankConnections(vec)

SpecRank == InitRank /\ [][NextRank]_vars

\* ------------------------------------------- rescale, sort and slice
\* Scored lists as the scoring loop leaves them for a call with the weights
\* (1, 0, 0, 0, 0): the score of a candidate is its vec_sim rounded to 6
\* decimals.  The values are a negative score, 0, two scores one millionth
\* apart and 1.
\* rescale_top is None, 0.0, the default, 1.0, 1/3 or a negative value.
InitRescale ==
    /\ similar = PrecomputedSimilar
    /\ similarJob = PrecomputedSimilarJob
    /\ augments = 0
    /\ lastBuild = [args |-> <<2, "count", One, Rat(1, 2)>>, runs |-> 1]
    /\ props = PrecomputedProps
    /\ run = IdleRuns
    /\ events = <<>>
    /\ db = NoDb
    /\ TITLE_CANON_MAP = <<>>
    /\ knows = {}
    /\ request \in
          {[DefaultRequest EXCEPT !.weights = <<One, Zero, Zero, Zero, Zero>>,
                                  !.top_k = k, !.rescale_top = r] :
              k \in {2, DefaultTopK},
              r \in {NullR, Zero, DefaultRescaleTop, One, Rat(1, 3), Rat(-1, 2)}}
    /\ scored \in
          UNION {{[i \in 1..n |->
                      [id |-> i, score |-> f[i],
                       components |-> [NoComponents EXCEPT !.vec_sim = f[i]]]] :
                     f \in [1..n -> {Rat(-2, Pow10(RoundDigits)), Zero,
                                     Rat(2, Pow10(RoundDigits)),
                                     Rat(3, Pow10(RoundDigits)), One}]} :
                 n \in 0..MaxScored}
    /\ result = NoResult
    /\ CACHE_SKILLS = <<>>
    /\ CACHE_COMPANIES = <<>>
    /\ SCHEMA_HAS_COMPANY = <<>>

\* The end of rank_my_connections on a scored list: rescale, sort, slice.
RescaleSortSlice ==
    /\ result.op = "none"
    /\ result' = [op |-> "rescale_sort_slice", status |-> "ok", vec |-> NoMatches]
                      @@ FinishRanking(scored, request.rescale_top, request.top_k)
    /\ UNCHANGED <<TITLE_CANON_MAP, events, db, knows, request, scored, CACHE_SKILLS, CACHE_COMPANIES,
                   SCHEMA_HAS_COMPANY>>
    /\ UNCHANGED simVars

NextRescale ==
    \/ RescaleSortSlice

SpecRescale == InitRescale /\ [][NextRescale]_vars

\* ------------------------------------------------------------ recompute
\* POST /recompute, one query (one auto-commit transaction) per step.  The
\* handlers are plain functions, which the server runs on worker threads.
\* The SIMILAR layer app.recompute leaves when it runs alone
recompute(p) ==
    augment_with_embedding_edges(
        build_similar_edges(NoEdges, p.min_shared_skills, p.weight_mode,
                            p.boost_company, p.boost_school, TRUE),
        p.embed_top_k, p.embed_scale, {})

\* The graph before the first precompute run, or as the run leaves it
InitRecompute ==
    /\ \/ /\ similar = NoEdges
          /\ similarJob = NoEdges
          /\ props = [L \in Layers |-> [p \in Persons |-> NoProps]]
       \/ /\ similar = PrecomputedSimilar
          /\ similarJob = PrecomputedSimilarJob
          /\ props = PrecomputedProps
    /\ augments = 0
    /\ lastBuild = [args |-> <<>>, runs |-> 0]
    /\ run = IdleRuns
    /\ events = <<>>
    /\ db = NoDb
    /\ TITLE_CANON_MAP = <<>>
    /\ knows = {}
    /\ request = DefaultRequest
    /\ scored = <<>>
    /\ result = NoResult
    /\ CACHE_SKILLS = <<>>
    /\ CACHE_COMPANIES = <<>>
    /\ SCHEMA_HAS_COMPANY = <<>>

\* app.recompute up to the call of build_similar_edges
\* (build_company_and_school runs no query).
RecomputeStart(w, p) ==
    /\ run[w].pc = "idle"
    /\ run' = [run EXCEPT ![w].pc = "delete", ![w].payload = p]
    /\ UNCHANGED <<similar, similarJob, augments, lastBuild, props>>
    /\ UNCHANGED rankVars

\* One query of build_similar_edges, or the augmentation that follows it.
RecomputeBuildStep(w) ==
    /\ run[w].pc \in {"delete", "base", "company", "school", "augment"}
    /\ \E pc \in {run[w].pc}, p \in {run[w].payload} :
          /\ similar' =
                CASE pc = "delete" -> NoEdges
                  [] pc = "base" -> BaseEdges(similar, p.min_shared_skills, p.weight_mode)
                  [] pc = "company" ->
                        IF RSign(p.boost_company) > 0
                        THEN BoostEdges(similar, [q \in Persons |-> worked_at(q)],
                                        p.boost_company)
                        ELSE similar
                  [] pc = "school" ->
                        IF RSign(p.boost_school) > 0
                        THEN BoostEdges(similar, [q \in Persons |-> attended(q)],
                                        p.boost_school)
                        ELSE similar
                  [] OTHER ->
                        augment_with_embedding_edges(similar, p.embed_top_k,
                                                     p.embed_scale, {})
          /\ augments' = IF pc = "delete" THEN 0
                         ELSE IF pc = "augment" /\ p.embed_top_k > 0 THEN augments + 1
                         ELSE augments
          /\ run' = [run EXCEPT ![w].pc =
                        CASE pc = "delete" -> "base"
                          [] pc = "base" -> "company"
                          [] pc = "company" -> "school"
                          [] pc = "school" -> "augment"
                          [] OTHER -> "project"]
    /\ lastBuild' = [args |-> <<>>, runs |-> 0]
    /\ UNCHANGED <<similarJob, props>>
    /\ UNCHANGED rankVars

\* One query of run_metrics_generic, for the layer run_metrics_both_graphs
\* is at: the projection (a copy of the layer's relationships), the two
\* writes of the library, the degree query and the write of its rows.
RecomputeMetricsStep(w) ==
    /\ run[w].pc \in {"project", "louvain", "betweenness", "degree", "bridge"}
    /\ \E pc \in {run[w].pc}, L \in {run[w].layer},
          nodes \in {Persons \ run[w].payload.exclude} :
          /\ props' =
                CASE pc = "louvain" ->
                       [props EXCEPT ![L] =
                           [q \in Persons |->
                               IF q \in nodes
                               THEN [props[L][q] EXCEPT
                                        !.community = Community(run[w].rels, q)]
                               ELSE props[L][q]]]
                  [] pc = "betweenness" ->
                       [props EXCEPT ![L] =
                           [q \in Persons |->
                               IF q \in nodes
                               THEN [props[L][q] EXCEPT
                                        !.betweenness = Betweenness(run[w].rels, nodes)[q]]
                               ELSE props[L][q]]]
                  [] pc = "bridge" ->
                       [props EXCEPT ![L] =
                           [q \in Persons |->
                               IF q \in DOMAIN run[w].rows[1]
                               THEN [props[L][q] EXCEPT
                                        !.bridgeCoeff = run[w].rows[1][q].bridgeCoeff,
                                        !.bridgePotential =
                                            RMul(Coalesce(props[L][q].betweenness, Zero),
                                                 run[w].rows[1][q].bridgeCoeff),
                                        !.similarDegree = run[w].rows[1][q].degree]
                               ELSE props[L][q]]]
                  [] OTHER -> props
          /\ run' =
                CASE pc = "project" ->
                       [run EXCEPT ![w].pc = "louvain",
                                   ![w].rels = ProjRels(LayerEdges(L), nodes),
                                   ![w].before = <<props[L]>>]
                  [] pc = "louvain" -> [run EXCEPT ![w].pc = "betweenness"]
                  [] pc = "betweenness" -> [run EXCEPT ![w].pc = "degree"]
                  [] pc = "degree" ->
                       [run EXCEPT ![w].pc = "bridge",
                                   ![w].rows =
                                       <<[q \in DegreeRows(LayerEdges(L)) |->
                                            [bridgeCoeff |-> BridgeCoeff(LayerEdges(L), q),
                                             degree |-> Cardinality(Neigh(LayerEdges(L), q))]]>>]
                  [] OTHER ->
                       [run EXCEPT ![w].pc = IF L = "Skills" THEN "project" ELSE "done",
                                   ![w].layer = "Job",
                                   ![w].rels = {}, ![w].before = <<>>, ![w].rows = <<>>]
    /\ UNCHANGED <<similar, similarJob, augments, lastBuild>>
    /\ UNCHANGED rankVars

NextRecompute ==
    \/ \E w \in Workers,
          p \in {DefaultPayload, [DefaultPayload EXCEPT !.embed_top_k = 1]} :
             RecomputeStart(w, p)
    \/ \E w \in Workers : RecomputeBuildStep(w)
    \/ \E w \in Workers : RecomputeMetricsStep(w)

SpecRecompute == InitRecompute /\ [][NextRecompute]_vars

\* --------------------------------------------------------- HTTP handlers
\* The bodies of the ranking endpoints have five weight fields, with the
\* defaults 0.40, 0.20, 0.15, 0.15 and 0.10.

InitApi ==
    /\ similar = PrecomputedSimilar
    /\ similarJob = PrecomputedSimilarJob
    /\ augments = 0
    /\ lastBuild = [args |-> <<2, "count", One, Rat(1, 2)>>, runs |-> 1]
    /\ props = PrecomputedProps
    /\ run = IdleRuns
    /\ events = <<>>
    /\ db = NoDb
    /\ TITLE_CANON_MAP = <<>>
    /\ knows \in KnowsFixtures
    /\ request \in
          [me_id : Persons,
           query : {Q_empty, Q_python_engineers, Q_engineer_at_google},
           top_k : {2, DefaultTopK},
           weights : {<<Rat(2, 5), Rat(1, 5), Rat(3, 20), Rat(3, 20), Rat(1, 10)>>,
                      <<One, Zero, Zero, Zero, Zero>>},
           prefilter : BOOLEAN,
           rescale_top : {NullR, DefaultRescaleTop},
           debug : BOOLEAN]
    /\ scored = <<>>
    /\ result = NoResult
    /\ CACHE_SKILLS = <<>>
    /\ CACHE_COMPANIES = <<>>
    /\ SCHEMA_HAS_COMPANY = <<>>

\* app.rank_connections_batch (POST /rank-connections/batch): one call of
\* rank_my_connections per query, in order, with the five weights, the
\* prefilter and the rescale_top of the body; vecs[i] is the answer of the
\* vector store to query i.  An exception of a call ends the request.
RankConnectionsBatch(queries, vecs) ==
    /\ result.op = "none"
    /\ ~request.debug
    /\ Len(request.weights) = 5
    /\ \E rs \in {[i \in 1..Len(queries) |->
                     Call(request.me_id, queries[i], request.top_k, request.weights,
                          request.prefilter, request.rescale_top, vecs[i])]} :
          \E failed \in {{i \in 1..Len(queries) : rs[i].status # "ok"}} :
             \E last \in {IF failed = {} THEN Len(queries)
                          ELSE CHOOSE i \in failed : \A j \in failed : i <= j} :
                /\ result' =
                      [op |-> "rank_connections_batch",
                       status |-> IF failed = {} THEN "ok" ELSE rs[last].status,
                       vec |-> NoMatches, ranked |-> <<>>, people |-> <<>>,
                       batch |-> IF failed # {} THEN <<>>
                                 ELSE [i \in 1..Len(queries) |->
                                          [query |-> queries[i], vec |-> vecs[i],
                                           results |-> rs[i].people]]]
                /\ scored' = IF last = 0 THEN scored ELSE rs[last].scored
    /\ IF queries = <<>>
       THEN UNCHANGED <<CACHE_SKILLS, SCHEMA_HAS_COMPANY, CACHE_COMPANIES>>
       ELSE FillCaches(request.weights)
    /\ UNCHANGED <<TITLE_CANON_MAP, events, db, knows, request>>
    /\ UNCHANGED simVars

\* A call _fetch_candidate_connections(driver, *args): the function has
\* four parameters after the driver, none with a default.
CandidateCall(args) ==
    IF Len(args) # 4
    THEN [status |-> "TypeError", ids |-> <<>>]
    ELSE [status |-> "ok",
          ids |-> fetch_candidate_connections(
                      knows, args[1], args[2], args[3], args[4],
                      SCHEMA_HAS_COMPANY # <<>> /\ SCHEMA_HAS_COMPANY[1])]

\* app.rank_connections_explain (POST /rank-connections/explain): the
\* skills are read, the query is parsed, the candidates are fetched with
\* (me_id, goal_skills, goal_job_tokens) and the first `sample` ids kept.
RankConnectionsExplain(sample) ==
    /\ result.op = "none"
    /\ \E goals \in {parse_query(request.query, fetch_all_skills)} :
          \E c \in {CandidateCall(
                        <<request.me_id,
                          IF request.prefilter THEN goals.goal_skills ELSE {},
                          IF request.prefilter THEN goals.goal_job_tokens ELSE {}>>)} :
             result' =
                 [op |-> "rank_connections_explain", status |-> c.status,
                  vec |-> NoMatches, ranked |-> <<>>, people |-> <<>>,
                  explain |-> IF c.status # "ok" THEN <<>>
                              ELSE <<[goal_skills |-> goals.goal_skills,
                                      goal_job_tokens |-> goals.goal_job_tokens,
                                      candidate_count |-> Len(c.ids),
                                      candidate_sample |-> SliceTo(c.ids, sample)]>>]
    /\ UNCHANGED <<TITLE_CANON_MAP, events, db, knows, request, scored, CACHE_SKILLS, CACHE_COMPANIES,
                   SCHEMA_HAS_COMPANY>>
    /\ UNCHANGED simVars

\* Fallback of rank_connections_graph: collect(p.id)[0..50]
FallbackLimit == 50

\* app.rank_connections_graph (POST /rank-connections/graph): clients tells
\* whether get_embedder and get_pinecone returned; rank_my_connections is
\* called with me_id, query and top_k of the body, and an exception of the
\* call is answered from the ego network of me.  The node rows carry the
\* score the handler sets; the links are the rows of MATCH (p1:Person
\* {id:a})-[:KNOWS]-(p2:Person {id:b}) for the pairs a < b of the ids kept.
RankConnectionsGraph(clients, vec) ==
    /\ result.op = "none"
    /\ Len(request.weights) >= 5
    /\ IF ~clients
       THEN /\ result' = [op |-> "rank_connections_graph", status |-> "500",
                          vec |-> NoMatches, ranked |-> <<>>, people |-> <<>>,
                          clients |-> FALSE, fallback |-> FALSE,
                          nodes |-> {}, links |-> <<>>]
            /\ UNCHANGED <<scored, CACHE_SKILLS, CACHE_COMPANIES, SCHEMA_HAS_COMPANY>>
       ELSE /\ \E r \in {Call(request.me_id, request.query, request.top_k,
                               DefaultWeights, TRUE, DefaultRescaleTop, vec)} :
                  \E keep_ids \in
                        {{request.me_id} \cup
                            (IF r.status = "ok"
                             THEN {r.people[i].id : i \in DOMAIN r.people}
                             ELSE Range(SliceTo(
                                      IdRows([p \in Persons |->
                                                 KnowsRows(knows, request.me_id, p)], 1),
                                      FallbackLimit)))} :
                     /\ result' =
                           [op |-> "rank_connections_graph", status |-> "ok",
                            vec |-> vec, ranked |-> r.ranked,
                            people |-> IF r.status = "ok" THEN r.people ELSE <<>>,
                            clients |-> TRUE, fallback |-> r.status # "ok",
                            nodes |->
                                {[id |-> p, isMe |-> p = request.me_id,
                                  score |->
                                     IF r.status = "ok"
                                        /\ p \in {r.people[i].id : i \in DOMAIN r.people}
                                     THEN (CHOOSE x \in Range(r.people) : x.id = p).score
                                     ELSE IF p = request.me_id THEN One ELSE Zero] :
                                    p \in keep_ids},
                            links |->
                                [e \in {x \in keep_ids \X keep_ids :
                                           /\ x[1] < x[2]
                                           /\ KnowsRows(knows, x[1], x[2]) > 0} |->
                                    KnowsRows(knows, e[1], e[2])]]
                     /\ scored' = r.scored
            /\ FillCaches(DefaultWeights)
    /\ UNCHANGED <<TITLE_CANON_MAP, events, db, knows, request>>
    /\ UNCHANGED simVars

NextApi ==
    \/ \E vec \in VecResponses : RankConnections(vec)
    \/ \E queries \in {<<>>, <<request.query>>,
                         <<request.query, Q_engineer_at_google>>} :
          \E vecs \in [1..Len(queries) -> VecResponses] :
             RankConnectionsBatch(queries, vecs)
    \/ \E sample \in {1, 10} : RankConnectionsExplain(sample)
    \/ \E clients \in BOOLEAN, vec \in VecResponses : RankConnectionsGraph(clients, vec)

SpecApi == InitApi /\ [][NextApi]_vars

\* ------------------------------------------------------------ intro path
\* Default of the max_depth parameter of GET /intro-path
DefaultMaxDepth == 4

\* shortestPath((a)-[:KNOWS*..d]-(b)): the node ids of the paths of 1..d
\* KNOWS relationships, taken in either direction, from src to dst that
\* have the fewest relationships.  Such a path visits no person twice.
shortestPath(knowsRel, src, dst, d) ==
    LET walks(n) == {f \in [1..(n + 1) -> Persons] :
                        /\ f[1] = src /\ f[n + 1] = dst
                        /\ \A i \in 1..n : f[i + 1] \in KnowsNeighbours(knowsRel, f[i])}
        lens == {n \in 1..(NPersons - 1) : n <= d /\ walks(n) # {}}
    IN  IF lens = {} THEN {}
        ELSE walks(CHOOSE n \in lens : \A m \in lens : n <= m)

InitPath ==
    /\ similar = PrecomputedSimilar
    /\ similarJob = PrecomputedSimilarJob
    /\ augments = 0
    /\ lastBuild = [args |-> <<2, "count", One, Rat(1, 2)>>, runs |-> 1]
    /\ props = PrecomputedProps
    /\ run = IdleRuns
    /\ events = <<>>
    /\ db = NoDb
    /\ TITLE_CANON_MAP = <<>>
    /\ knows \in SUBSET {<<1, 2>>, <<2, 4>>, <<4, 3>>, <<3, 1>>, <<3, 2>>}
    /\ request = DefaultRequest
    /\ scored = <<>>
    /\ result = NoResult
    /\ CACHE_SKILLS = <<>>
    /\ CACHE_COMPANIES = <<>>
    /\ SCHEMA_HAS_COMPANY = <<>>

\* app.intro_path (GET /intro-path).  The query passes max_depth as the
\* parameter $d inside the pattern, [:KNOWS*..$d]; accepted says whether
\* the server's parser takes a parameter as the bound of a variable-length
\* pattern (Cypher 5 does not: the query is rejected).  A server that takes
\* it refuses shortestPath between a node and itself, and returns any one
\* of the shortest paths.
IntroPath(src, dst, max_depth, accepted) ==
    /\ result.op = "none"
    /\ \E answer \in
          IF ~accepted THEN {[status |-> "CypherSyntaxError", path |-> <<>>, hops |-> Null]}
          ELSE IF src = dst THEN {[status |-> "ClientError", path |-> <<>>, hops |-> Null]}
          ELSE IF shortestPath(knows, src, dst, max_depth) = {}
          THEN {[status |-> "ok", path |-> <<>>, hops |-> Null]}
          ELSE {[status |-> "ok", path |-> f, hops |-> Len(f) - 1] :
                   f \in shortestPath(knows, src, dst, max_depth)} :
          result' = [op |-> "intro_path", vec |-> NoMatches, ranked |-> <<>>,
                     people |-> <<>>, src |-> src, dst |-> dst,
                     max_depth |-> max_depth] @@ answer
    /\ UNCHANGED <<TITLE_CANON_MAP, events, db, knows, request, scored, CACHE_SKILLS, CACHE_COMPANIES,
                   SCHEMA_HAS_COMPANY>>
    /\ UNCHANGED simVars

NextPath ==
    \/ \E src \in Persons, dst \in Persons, max_depth \in {1, 2, DefaultMaxDepth},
          accepted \in BOOLEAN :
             IntroPath(src, dst, max_depth, accepted)

SpecPath == InitPath /\ [][NextPath]_vars

\* ------------------------------------------------ parsing a text alone
\* The query of test_rank_connections_debug
Q_software_engineers_with_python == <<"s", "o", "f", "t", "w", "a", "r", "e", " ", "e", "n", "g", "i", "n", "e", "e", "r", "s", " ", "w", "i", "t", "h", " ", "p", "y", "t", "h", "o", "n">>

\* A text of at most MaxWords words, written with capitals, punctuation and
\* a hyphen, or one of the queries of the tests; the lexicon caches are
\* loaded.
InitText ==
    /\ similar = PrecomputedSimilar
    /\ similarJob = PrecomputedSimilarJob
    /\ augments = 0
    /\ lastBuild = [args |-> <<2, "count", One, Rat(1, 2)>>, runs |-> 1]
    /\ props = PrecomputedProps
    /\ run = IdleRuns
    /\ events = <<>>
    /\ db = NoDb
    /\ TITLE_CANON_MAP \in
          {load_title_canon_mapping(titles) :
              titles \in {{}, {<<"S", "o", "f", "t", "w", "a", "r", "e">> \o <<" ">> \o W.engineer,
                              <<"D", "a", "t", "a", ",">> \o <<" ">> \o W.engineer \o W.s,
                              <<"d", "e", "v", "o", "p", "s">>}}}
    /\ knows = {}
    /\ \E text \in
          {Q_software_engineers_with_python, Q_software_engineers_with_sql,
           Q_python_engineers, Q_engineer_at_google}
          \cup {JoinWith(ws, <<" ">>) :
                  ws \in UNION {[1..n ->
                                   {W.engineer, W.engineer \o W.s, W.softwareengineer,
                                    W.softwareengineer \o W.s,
                                    <<"S", "o", "f", "t", "w", "a", "r", "e">>,
                                    <<"d", "e", "v", "o", "p", "s">>,
                                    <<"D", "a", "t", "a", ",">>,
                                    <<"f", "u", "l", "l", "-", "s", "t", "a", "c", "k">>,
                                    <<"i", "o", "s", "/", "a", "n", "d", "r", "o", "i", "d", "s">>,
                                    <<"s", "t", "u", "d", "e", "n", "t">>,
                                    W.python, W.sql, W.at}] : n \in 0..MaxWords}} :
          request = [DefaultRequest EXCEPT !.query = text]
    /\ scored = <<>>
    /\ result = NoResult
    /\ CACHE_SKILLS = <<fetch_all_skills>>
    /\ SCHEMA_HAS_COMPANY = <<detect_company_schema>>
    /\ CACHE_COMPANIES = <<fetch_all_companies(detect_company_schema)>>

\* _parse_query(query, all_skills) as rank_my_connections and the explain
\* handler call it: both lists are returned sorted.
ParseQuery ==
    /\ result.op = "none"
    /\ \E g \in {parse_query(request.query, CACHE_SKILLS[1])} :
          result' = [op |-> "parse_query", status |-> "ok",
                     goal_skills |-> SortedStr(g.goal_skills),
                     goal_job_tokens |-> SortedStr(g.goal_job_tokens)]
    /\ UNCHANGED <<TITLE_CANON_MAP, events, db, knows, request, scored, CACHE_SKILLS, CACHE_COMPANIES,
                   SCHEMA_HAS_COMPANY>>
    /\ UNCHANGED simVars

\* canonicalize(title) for the text as a raw job title; derive_job_title
\* passes a stripped title that is not empty.
Canonicalize ==
    /\ result.op = "none"
    /\ Strip(request.query) # <<>>
    /\ \E c \in {canonicalize(TITLE_CANON_MAP, request.query)} :
          result' = [op |-> "canonicalize", status |-> "ok",
                     canon |-> c.canon, short |-> c.short, snake |-> c.snake]
    /\ UNCHANGED <<TITLE_CANON_MAP, events, db, knows, request, scored, CACHE_SKILLS,
                   CACHE_COMPANIES, SCHEMA_HAS_COMPANY>>
    /\ UNCHANGED simVars

NextText ==
    \/ ParseQuery
    \/ Canonicalize

SpecText == InitText /\ [][NextText]_vars

\* ------------------------------------- the lexicon caches, step by step
\* A process that has served no request yet, on the precomputed graph.
InitCache ==
    /\ similar = PrecomputedSimilar
    /\ similarJob = PrecomputedSimilarJob
    /\ augments = 0
    /\ lastBuild = [args |-> <<2, "count", One, Rat(1, 2)>>, runs |-> 1]
    /\ props = PrecomputedProps
    /\ run = IdleRuns
    /\ events = <<>>
    /\ db = NoDb
    /\ TITLE_CANON_MAP = <<>>
    /\ knows = {<<1, 2>>, <<1, 3>>, <<2, 3>>}
    /\ request = DefaultRequest
    /\ scored = <<>>
    /\ result = NoResult
    /\ CACHE_SKILLS = <<>>
    /\ CACHE_COMPANIES = <<>>
    /\ SCHEMA_HAS_COMPANY = <<>>

\* rank_my_connections on a worker thread, one step per test of a cache
\* and per fetch: the handlers are plain functions, so the server runs
\* them on its thread pool, and a thread can be suspended between the test
\* 'is None' and the assignment, while the query of the fetch is under way.
\* At most MaxCalls requests are started.  The last step runs the rest of
\* the call.
RankMyConnectionsStep(w) ==
    \E pc \in {run[w].pc} :
       /\ pc \in {"idle", "skills", "fetch_skills", "schema", "fetch_schema",
                  "companies", "fetch_companies", "rank"}
       /\ pc = "idle" =>
             Cardinality({i \in DOMAIN events : events[i][2] \in {"start", "recompute"}})
                 < MaxCalls
       /\ run' = [run EXCEPT ![w].pc =
                     CASE pc = "idle" -> "skills"
                       [] pc = "skills" ->
                            IF CACHE_SKILLS = <<>> THEN "fetch_skills" ELSE "schema"
                       [] pc = "fetch_skills" -> "schema"
                       [] pc = "schema" ->
                            IF SCHEMA_HAS_COMPANY = <<>> THEN "fetch_schema" ELSE "companies"
                       [] pc = "fetch_schema" -> "companies"
                       [] pc = "companies" ->
                            IF CACHE_COMPANIES = <<>> THEN "fetch_companies" ELSE "rank"
                       [] pc = "fetch_companies" -> "rank"
                       [] OTHER -> "idle"]
       /\ CACHE_SKILLS' = IF pc = "fetch_skills" THEN <<fetch_all_skills>> ELSE CACHE_SKILLS
       /\ SCHEMA_HAS_COMPANY' =
             IF pc = "fetch_schema" THEN <<detect_company_schema>> ELSE SCHEMA_HAS_COMPANY
       /\ CACHE_COMPANIES' =
             IF pc = "fetch_companies"
             THEN <<fetch_all_companies(SCHEMA_HAS_COMPANY[1])>> ELSE CACHE_COMPANIES
       /\ events' =
             CASE pc = "idle" -> Append(events, <<w, "start">>)
               [] pc = "fetch_skills" -> Append(events, <<w, "load_skills">>)
               [] pc = "fetch_schema" -> Append(events, <<w, "load_schema">>)
               [] pc = "fetch_companies" -> Append(events, <<w, "load_companies">>)
               [] pc = "rank" -> Append(events, <<w, "return">>)
               [] OTHER -> events
       /\ IF pc = "rank"
          THEN \E r \in {Call(request.me_id, request.query, request.top_k, request.weights,
                              request.prefilter, request.rescale_top, NoMatches)} :
                  /\ result' = [op |-> "rank_my_connections", status |-> r.status,
                                vec |-> NoMatches, ranked |-> r.ranked, people |-> r.people]
                  /\ scored' = r.scored
          ELSE UNCHANGED <<result, scored>>
       /\ UNCHANGED <<similar, similarJob, augments, lastBuild, props, knows, request, db,
                      TITLE_CANON_MAP>>

\* app.recompute (POST /recompute) with the default body, served by an
\* idle worker thread: the SIMILAR layer is rebuilt and the metrics of
\* both layers are written; the handler touches no module state of
\* rank_my_connections.
RecomputeRequest(w) ==
    /\ run[w].pc = "idle"
    /\ Cardinality({i \in DOMAIN events : events[i][2] \in {"start", "recompute"}})
           < MaxCalls
    /\ \E edges \in {recompute(DefaultPayload)} :
          /\ similar' = edges
          /\ props' = [L \in Layers |->
                          run_metrics_generic(props[L],
                              IF L = "Skills" THEN edges ELSE similarJob,
                              DefaultPayload.exclude, FALSE)]
    /\ augments' = 0
    /\ lastBuild' = [args |-> <<>>, runs |-> 0]
    /\ events' = Append(events, <<w, "recompute">>)
    /\ UNCHANGED <<similarJob, run, knows, request, scored, result, db, TITLE_CANON_MAP,
                   CACHE_SKILLS, CACHE_COMPANIES, SCHEMA_HAS_COMPANY>>

NextCache ==
    \/ \E w \in Workers : RankMyConnectionsStep(w)
    \/ \E w \in Workers : RecomputeRequest(w)

SpecCache == InitCache /\ [][NextCache]_vars

\* ------------------------------------------------------------ properties
PropsOf(L, p) == props[L][p]

\* C6: after a metrics run every person p of every layer L has
\* bridgePotentialL(p) = betweennessL(p) * bridgeCoeffL(p) (a property that
\* is not set reads as 0), also across runs between which the edges change.
C6_BridgePotentialIsProduct ==
    \A L \in Layers, p \in Persons :
        Coalesce(PropsOf(L, p).bridgePotential, Zero) =
            RMul(Coalesce(PropsOf(L, p).betweenness, Zero),
                 Coalesce(PropsOf(L, p).bridgeCoeff, Zero))

C8_OrientedNonNegative ==
    /\ \A e \in DOMAIN similar :
          e[1] < e[2] /\ RLe(Zero, Coalesce(similar[e].weight, Zero))
    /\ \A e \in DOMAIN similarJob :
          e[1] < e[2] /\ RLe(Zero, Coalesce(similarJob[e].weight, Zero))

C1_OnlyNeighboursReturned ==
    result.op \in {"rank_my_connections", "rank_connections"} =>
        \A i \in DOMAIN result.people :
            result.people[i].id \in KnowsNeighbours(knows, request.me_id)

\* A call returned somebody while the vector store had matched, with a
\* positive score, a person who is neither me nor a neighbour of me.
C1_Witness ==
    /\ result.op = "rank_my_connections"
    /\ result.people # <<>>
    /\ \E p \in DOMAIN result.vec.matches :
          /\ p # request.me_id
          /\ p \notin KnowsNeighbours(knows, request.me_id)
          /\ RSign(result.vec.matches[p]) > 0

\* C2: rank_my_connections returns at most top_k entries, in order of
\* non-increasing score, and no scored candidate that is left out has a
\* score strictly greater than a returned one (the candidates that beat
\* the j-th returned entry are fewer than j), for every integer top_k.
C2_TopKBestFirst ==
    (result.op = "rank_my_connections" /\ result.status = "ok") =>
        /\ Len(result.people) <= request.top_k
        /\ \A j \in 1..(Len(result.people) - 1) :
              RLe(result.people[j + 1].score, result.people[j].score)
        /\ \A j \in DOMAIN result.people :
              Cardinality({i \in DOMAIN result.ranked :
                              RLt(result.people[j].score, result.ranked[i].score)}) < j

\* C3: in every RankedPerson returned by rank_my_connections each of the
\* six components lies in [0, 1].
C3_ComponentsInUnitInterval ==
    result.op = "rank_my_connections" =>
        \A i \in DOMAIN result.people : \A c \in DOMAIN NoComponents :
            /\ RLe(Zero, result.people[i].components[c])
            /\ RLe(result.people[i].components[c], One)

\* C4: when the rescale step is triggered (rescale_top is truthy and the
\* scored list is not empty), for any two scored candidates p and q,
\* score(p) >= score(q) before the step if and only if score(p) >= score(q)
\* after it.
C4_RescalePreservesOrder ==
    (result.op = "rescale_sort_slice" /\ Truthy(request.rescale_top) /\ scored # <<>>) =>
        LET after(id) == (CHOOSE r \in Range(result.ranked) : r.id = id).score
        IN  \A p, q \in DOMAIN scored :
                RLe(scored[q].score, scored[p].score) <=>
                    RLe(after(scored[q].id), after(scored[p].id))

C10_RequestSettingsUsed ==
    (result.op = "rank_connections" /\ result.status = "ok") =>
        result.people =
            Call(request.me_id, request.query, request.top_k, request.weights,
                 request.prefilter, request.rescale_top, result.vec).people

\* C11: for every query q of a POST /rank-connections/batch request that was
\* answered, the results returned for q are what POST /rank-connections
\* returns for the same me_id, q and top_k on the same graph and the same
\* answer of the vector store (the single endpoint ranks with the defaults
\* of rank_my_connections, whatever the body says).
C11_BatchEqualsSingle ==
    (result.op = "rank_connections_batch" /\ result.status = "ok") =>
        \A i \in 1..Len(result.batch) :
            \E single \in {Call(request.me_id, result.batch[i].query, request.top_k,
                                DefaultWeights, TRUE, DefaultRescaleTop,
                                result.batch[i].vec)} :
                /\ single.status = "ok"
                /\ result.batch[i].results = single.people

\* C12: a request for the parse explanation, POST /rank-connections/explain
\* or POST /rank-connections with debug set while the vector store answers,
\* succeeds.
C12_ExplainSucceeds ==
    (\/ result.op = "rank_connections_explain"
     \/ (result.op = "rank_connections" /\ request.debug /\ result.vec.ok)) =>
        result.status = "ok"

\* C13: POST /rank-connections/graph is answered with 200 also when the
\* embedder or the vector store fails: a request for which the clients
\* could not be obtained gets the fallback answer, and a fallback answer
\* holds me and at most 50 direct KNOWS neighbours of me.
C13_GraphFallsBack ==
    result.op = "rank_connections_graph" =>
        /\ result.status = "ok"
        /\ ~result.clients => result.fallback
        /\ result.fallback =>
              /\ {n.id : n \in result.nodes} \subseteq
                    {request.me_id} \cup KnowsNeighbours(knows, request.me_id)
              /\ Cardinality({n.id : n \in result.nodes} \ {request.me_id}) <= FallbackLimit

\* C14: for the query 'at gogle', with google in the company universe, a
\* returned candidate whose only company is google has company_match = 1.
C14_MisspelledCompanyResolved ==
    (/\ result.op = "rank_my_connections"
     /\ result.status = "ok"
     /\ request.query = Q_at_gogle
     /\ W.google \in CACHE_COMPANIES[1]) =>
        \A i \in DOMAIN result.people :
            PersonCompanies(result.people[i].id, SCHEMA_HAS_COMPANY[1]) = {W.google} =>
                result.people[i].components.company_match = One

\* C15: a call with prefilter set and a top_k that keeps every scored
\* candidate returns every KNOWS neighbour of me whose expanded job tokens
\* meet the job tokens of the query, with job_match > 0.
C15_JobRootsKeepCandidate ==
    (/\ result.op = "rank_my_connections"
     /\ result.status = "ok"
     /\ request.prefilter
     /\ request.top_k = DefaultTopK) =>
        \A p \in KnowsNeighbours(knows, request.me_id) :
            expand_job_tokens(fetch_candidate_features(props, <<p>>)[p].job_tokens)
                \cap parse_query(request.query, CACHE_SKILLS[1]).goal_job_tokens # {} =>
                    \E i \in DOMAIN result.people :
                        /\ result.people[i].id = p
                        /\ RLt(Zero, result.people[i].components.job_match)

\* C19: a call with top_k = 0 that passes the check of the weights returns
\* the empty list and has read nothing from the graph store or the vector
\* store: the lexicon caches are still unset and no candidate was scored.
C19_ZeroTopKReadsNothing ==
    (/\ result.op = "rank_my_connections"
     /\ result.status = "ok"
     /\ request.top_k = 0) =>
        /\ result.people = <<>>
        /\ CACHE_SKILLS = <<>>
        /\ CACHE_COMPANIES = <<>>
        /\ scored = <<>>

\* C16: when a POST /recompute that ran alone has returned, SIMILAR holds
\* what the rebuild makes of the current graph, with no earlier edge left,
\* and SIMILAR_JOB holds exactly the pairs of persons with equal non-empty
\* jobTitleCanon.
C16_BothLayersRebuilt ==
    \A w \in Workers :
        (/\ run[w].pc = "done"
         /\ \A v \in Workers \ {w} : run[v].pc = "idle") =>
            /\ similar = recompute(run[w].payload)
            /\ DOMAIN similarJob =
                  {pq \in OrderedPairs :
                      /\ jobTitleCanon(pq[1]) # ""
                      /\ jobTitleCanon(pq[2]) = jobTitleCanon(pq[1])}

\* C17: while a single metrics run is under way on a layer, a reader finds
\* the five properties of the layer as they were before the run (the
\* properties a reader can see are those of the current state).
C17_NoTornRead ==
    \A w \in Workers :
        (/\ run[w].pc \in {"louvain", "betweenness", "degree", "bridge"}
         /\ \A v \in Workers \ {w} : run[v].pc = "idle") =>
            props[run[w].layer] = run[w].before[1]

\* C18: once every POST /recompute that was started has returned, the
\* SIMILAR layer is the one a single recompute run alone leaves, for the
\* body of one of the requests.
C18_RecomputesSerialized ==
    (/\ \E w \in Workers : run[w].pc = "done"
     /\ \A w \in Workers : run[w].pc \in {"idle", "done"}) =>
        \E w \in Workers : run[w].pc = "done" /\ similar = recompute(run[w].payload)

\* C20: GET /intro-path for two different persons answers with a path from
\* src to dst along KNOWS relationships, in either direction, of
\* hops = len(path) - 1 <= max_depth relationships and as short as any
\* such path, or with the empty path and hops null when there is none.
C20_IntroPathShortest ==
    (result.op = "intro_path" /\ result.src # result.dst) =>
        LET along(f) ==
                /\ f[1] = result.src /\ f[Len(f)] = result.dst
                /\ \A i \in 1..(Len(f) - 1) :
                      \/ <<f[i], f[i + 1]>> \in knows
                      \/ <<f[i + 1], f[i]>> \in knows
            within(n) == \E f \in [1..(n + 1) -> Persons] : along(f)
        IN  /\ result.status = "ok"
            /\ IF \E n \in 1..(NPersons - 1) : n <= result.max_depth /\ within(n)
               THEN /\ result.path # <<>>
                    /\ along(result.path)
                    /\ result.hops = Len(result.path) - 1
                    /\ result.hops <= result.max_depth
                    /\ \A n \in 1..(NPersons - 1) : within(n) => result.hops <= n
               ELSE result.path = <<>> /\ result.hops = Null

C23_JobTokensSortedExact ==
    result.op = "parse_query" =>
        LET toks == Range(tokenize(request.query))
            out == result.goal_job_tokens
        IN  /\ \A i \in DOMAIN out : \A j \in DOMAIN out :
                  i < j => StrLess(out[i], out[j])
            /\ Range(out) =
                  {t \in toks : t \in ROLE_ROOTS \/ EndsWith(t, W.engineer)}
                      \cup {r \in ROLE_ROOTS : ~EndsWith(r, W.s) /\ (r \o W.s) \in toks}
            /\ request.query = Q_software_engineers_with_python =>
                  out = <<W.engineer, W.software>>

C23_Witness ==
    /\ result.op = "parse_query"
    /\ request.query = Q_software_engineers_with_python
    /\ result.goal_job_tokens = <<W.engineer, W.software>>
    /\ result.goal_skills = <<W.python>>

\* C24: the first rank call started after a POST /recompute has returned
\* loads the skill and the company lexicon from the graph before it
\* returns.
C24_RecomputeInvalidates ==
    \A i \in DOMAIN events : \A j \in DOMAIN events : \A k \in DOMAIN events :
        (/\ i < j /\ j < k
         /\ events[i][2] = "recompute"
         /\ events[j][2] = "start"
         /\ \A m \in (i + 1)..(j - 1) : events[m][2] # "start"
         /\ events[k] = <<events[j][1], "return">>) =>
            /\ \E m \in j..k : events[m] = <<events[j][1], "load_skills">>
            /\ \E m \in j..k : events[m] = <<events[j][1], "load_companies">>

\* C25: whatever the interleaving of the rank calls of one process, each
\* of the three caches is loaded from the graph at most once.
C25_SingleWriter ==
    \A kind \in {"load_skills", "load_schema", "load_companies"} :
        Cardinality({i \in DOMAIN events : events[i][2] = kind}) <= 1

\* C26: a rebuild in which one step (base edges, company boost, school
\* boost or embedding augmentation) is executed a second time right after
\* the first leaves every SIMILAR edge with the weight of the rebuild
\* without the repetition.
C26_StepRetryIdempotent ==
    [][\A m \in {1, 2}, mode \in {"count", "jaccard"}, bc \in {Zero, One},
          bs \in {Zero, Rat(1, 2)}, k \in {0, 1}, sc \in {Rat(1, 2)},
          retried \in {"base", "company", "school", "augment"} :
           RebuildWithRetry(m, mode, bc, bs, k, sc, retried) =>
               similar' = augment_with_embedding_edges(
                              build_similar_edges(NoEdges, m, mode, bc, bs, TRUE),
                              k, sc, {})]_vars

\* C27: canonicalize returns the category stored in the lookup for a title
\* whose lower-cased form is a key of it, and for every other title the
\* category the rule cascade chooses.
C27_LookupElseCascade ==
    result.op = "canonicalize" =>
        result.canon =
            IF Strip(Lower(request.query)) \in DOMAIN TITLE_CANON_MAP
            THEN TITLE_CANON_MAP[Strip(Lower(request.query))]
            ELSE categorize_raw(request.query)

\* ------------------------------------------ github-analyzer-api database
\* DB_CONNECT_RETRIES, DB_CONNECT_INITIAL_DELAY, DB_CONNECT_MAX_DELAY and
\* ENFORCE_PORTFOLIO_DEDUP when the environment sets none of them (delays in
\* seconds).
DefaultDbConfig ==
    [attempts |-> 5, initial_delay |-> One, max_delay |-> Rat(15, 1), dedup |-> TRUE]

\* The process after DatabaseManager() and before the lifespan calls
\* initialize.  The configuration is what the environment holds: a number of
\* attempts from 0 to MaxAttempts or the default, an initial delay below,
\* at and above the cap.  The table holds nothing or one item stored
\* earlier; every create call of a behaviour carries the same payload (url
\* "NULL" stands for None).
InitDb ==
    /\ similar = PrecomputedSimilar
    /\ similarJob = PrecomputedSimilarJob
    /\ augments = 0
    /\ lastBuild = [args |-> <<2, "count", One, Rat(1, 2)>>, runs |-> 1]
    /\ props = PrecomputedProps
    /\ run = IdleRuns
    /\ events = <<>>
    /\ TITLE_CANON_MAP = <<>>
    /\ knows = {}
    /\ request = DefaultRequest
    /\ scored = <<>>
    /\ result = NoResult
    /\ CACHE_SKILLS = <<>>
    /\ CACHE_COMPANIES = <<>>
    /\ SCHEMA_HAS_COMPANY = <<>>
    /\ \E n \in (0..MaxAttempts) \cup {DefaultDbConfig.attempts},
          d0 \in {Rat(1, 2), DefaultDbConfig.initial_delay, Rat(20, 1)},
          dmax \in {One, DefaultDbConfig.max_delay},
          dedup \in BOOLEAN,
          title \in {"Demo", ""},
          stored \in {<<>>, <<[id |-> 1, title |-> "Other", type |-> "url",
                               url |-> "NULL", summary |-> "s"]>>} :
          db = [NoDb EXCEPT
                   !.cfg = [attempts |-> n, initial_delay |-> d0,
                            max_delay |-> dmax, dedup |-> dedup],
                   !.payload = [title |-> title, type |-> "url",
                                url |-> "NULL", summary |-> "s"],
                   !.rows = stored]

\* DatabaseManager.initialize, one step per pass of the code between two
\* awaits: reading the configuration, one connection attempt (create_pool
\* and the test query; create_pool can succeed, which assigns self.pool,
\* and the test query fail), one sleep followed by the doubling of the
\* delay.  The step of the last failed attempt leaves the loop and sets
\* self.pool = None.
InitializeStep_sleep_after_last ==
    /\ \/ /\ db.pc = "new"
          /\ db' = [db EXCEPT !.delay = db.cfg.initial_delay,
                              !.attempt = 1,
                              !.pc = IF db.cfg.attempts >= 1 THEN "attempt" ELSE "ready"]
       \/ /\ db.pc = "attempt"
          /\ \E outcome \in {"ok", "pool_only", "fail"} :
                IF outcome = "ok"
                THEN db' = [db EXCEPT !.pool = TRUE, !.pc = "ready",
                                      !.tries = Append(db.tries, "ok")]
                ELSE db' = [db EXCEPT !.pool = (outcome = "pool_only") \/ db.pool,
                                      !.tries = Append(db.tries, "fail"),
                                      !.pc = "sleep"]
       \/ /\ db.pc = "sleep"
          /\ \E d \in {RMul(db.delay, Rat(2, 1))} :
                db' = [db EXCEPT
                          !.waits = Append(db.waits, db.delay),
                          !.delay = IF RLt(db.cfg.max_delay, d) THEN db.cfg.max_delay ELSE d,
                          !.attempt = db.attempt + 1,
                          !.pool = IF db.attempt < db.cfg.attempts THEN db.pool ELSE FALSE,
                          !.pc = IF db.attempt < db.cfg.attempts THEN "attempt" ELSE "ready"]
    /\ UNCHANGED <<simVars, knows, request, scored, result, CACHE_SKILLS,
                   CACHE_COMPANIES, SCHEMA_HAS_COMPANY, TITLE_CANON_MAP, events>>
InitializeStep ==
    /\ \/ /\ db.pc = "new"
          /\ db' = [db EXCEPT !.delay = db.cfg.initial_delay,
                              !.attempt = 1,
                              !.pc = IF db.cfg.attempts >= 1 THEN "attempt" ELSE "ready"]
       \/ /\ db.pc = "attempt"
          /\ \E outcome \in {"ok", "pool_only", "fail"} :
                IF outcome = "ok"
                THEN db' = [db EXCEPT !.pool = TRUE, !.pc = "ready",
                                      !.tries = Append(db.tries, "ok")]
                ELSE IF db.attempt < db.cfg.attempts
                THEN db' = [db EXCEPT !.pool = (outcome = "pool_only") \/ db.pool,
                                      !.tries = Append(db.tries, "fail"),
                                      !.pc = "sleep"]
                ELSE db' = [db EXCEPT !.pool = FALSE,
                                      !.tries = Append(db.tries, "fail"),
                                      !.pc = "ready"]
       \/ /\ db.pc = "sleep"
          /\ \E d \in {RMul(db.delay, Rat(2, 1))} :
                db' = [db EXCEPT
                          !.waits = Append(db.waits, db.delay),
                          !.delay = IF RLt(db.cfg.max_delay, d) THEN db.cfg.max_delay ELSE d,
                          !.attempt = db.attempt + 1,
                          !.pc = "attempt"]
    /\ UNCHANGED <<simVars, knows, request, scored, result, CACHE_SKILLS,
                   CACHE_COMPANIES, SCHEMA_HAS_COMPANY, TITLE_CANON_MAP, events>>

\* DatabaseManager.create_portfolio_item as task w of the event loop, one
\* step per pass between two awaits: acquiring a connection (AttributeError
\* when the pool is None, which the endpoint turns into a 500), the SELECT
\* of the dedup (only with ENFORCE_PORTFOLIO_DEDUP = '1' and a truthy title
\* and type), the INSERT under a fresh uuid.  Requests are served once the
\* lifespan has finished initialize; at most MaxCreates calls are made.
CreatePortfolioItemStep(w) ==
    /\ db.pc = "ready"
    /\ \/ /\ db.task[w].pc = "idle"
          /\ db.calls < MaxCreates
          /\ db' = [db EXCEPT
                       !.calls = db.calls + 1,
                       !.rets = IF db.pool THEN db.rets ELSE Append(db.rets, Null),
                       !.task[w].pc =
                           IF ~db.pool THEN "idle"
                           ELSE IF db.cfg.dedup /\ db.payload.title # ""
                                     /\ db.payload.type # ""
                           THEN "select" ELSE "insert"]
       \/ /\ db.task[w].pc = "select"
          /\ \E existing \in {SelectSeq(db.rows, LAMBDA r :
                                  /\ r.title = db.payload.title
                                  /\ r.type = db.payload.type
                                  /\ (IF r.url = "NULL" THEN "" ELSE r.url)
                                       = (IF db.payload.url = "NULL" THEN ""
                                          ELSE db.payload.url)
                                  /\ r.summary # "NULL"
                                  /\ r.summary = db.payload.summary)} :
                IF existing # <<>>
                THEN db' = [db EXCEPT
                               !.rets = Append(db.rets, existing[Len(existing)].id),
                               !.task[w].pc = "idle"]
                ELSE db' = [db EXCEPT !.task[w].pc = "insert"]
       \/ /\ db.task[w].pc = "insert"
          /\ \E item_id \in {Len(db.rows) + 1} :
                db' = [db EXCEPT
                          !.rows = Append(db.rows,
                                      [id |-> item_id, title |-> db.payload.title,
                                       type |-> db.payload.type, url |-> db.payload.url,
                                       summary |-> db.payload.summary]),
                          !.rets = Append(db.rets, item_id),
                          !.task[w].pc = "idle"]
    /\ UNCHANGED <<simVars, knows, request, scored, result, CACHE_SKILLS,
                   CACHE_COMPANIES, SCHEMA_HAS_COMPANY, TITLE_CANON_MAP, events>>

NextDb ==
    \/ InitializeStep
    \/ \E w \in Workers : CreatePortfolioItemStep(w)

SpecDb == InitDb /\ [][NextDb]_vars

\* The lifespan awaits initialize and the event loop runs it whenever it
\* can continue: an attempt ends (asyncpg's connect timeout, command_timeout)
\* and a sleep of a finite delay ends.
SpecDbLive == InitDb /\ [][NextDb]_vars /\ WF_vars(InitializeStep)

\* C28: initialize always returns: it makes at most DB_CONNECT_RETRIES
\* attempts, none after the first success, which leaves a ready pool; it
\* sleeps only between two attempts, never after the last one; after the
\* last failure the pool is None (is_ready() false) and the call has
\* returned.
C28_InitializeTerminates ==
    /\ [](/\ Len(db.tries) <= (IF db.cfg.attempts > 0 THEN db.cfg.attempts ELSE 0)
          /\ \A i \in 1..(Len(db.tries) - 1) : db.tries[i] = "fail"
          /\ (db.tries # <<>> /\ db.tries[Len(db.tries)] = "ok")
                 => (db.pc = "ready" /\ db.pool)
          /\ db.pc = "attempt" => Len(db.waits) = Len(db.tries)
          /\ db.pc = "sleep" => (/\ Len(db.waits) = Len(db.tries) - 1
                                 /\ Len(db.tries) < db.cfg.attempts)
          /\ db.pc = "ready" =>
                 Len(db.waits) = (IF db.tries = <<>> THEN 0 ELSE Len(db.tries) - 1)
          /\ (db.pc = "ready" /\ (db.tries = <<>> \/ db.tries[Len(db.tries)] = "fail"))
                 => (/\ ~db.pool
                     /\ Len(db.tries) = (IF db.cfg.attempts > 0 THEN db.cfg.attempts
                                         ELSE 0)))
    /\ <>(db.pc = "ready")

\* initialize has returned after MaxAttempts failed attempts, one of which
\* had opened a pool, with a sleep between every two of them and none at
\* the end, and the pool is None.
C28_Witness ==
    /\ db.pc = "ready"
    /\ db.cfg.attempts = MaxAttempts
    /\ db.tries = [i \in 1..MaxAttempts |-> "fail"]
    /\ Len(db.waits) = MaxAttempts - 1
    /\ ~db.pool

\* C29: whatever DB_CONNECT_INITIAL_DELAY and DB_CONNECT_MAX_DELAY are, every
\* wait of initialize is at most DB_CONNECT_MAX_DELAY and no wait is shorter
\* than the one before it.
C29_CappedBackoff ==
    \A i \in DOMAIN db.waits :
        /\ RLe(db.waits[i], db.cfg.max_delay)
        /\ i > 1 => RLe(db.waits[i - 1], db.waits[i])

\* C30: with the dedup enabled and a ready pool, once every create call
\* made so far with the one payload (truthy title and type) has returned,
\* exactly one row with the payload's title, type, url and summary is
\* stored and every call has returned the id of that row.
C30_CreateIdempotent ==
    (/\ db.pc = "ready"
     /\ db.pool
     /\ db.cfg.dedup
     /\ db.payload.title # ""
     /\ db.rets # <<>>
     /\ \A w \in Workers : db.task[w].pc = "idle")
    => \E m \in {SelectSeq(db.rows, LAMBDA r :
                     /\ r.title = db.payload.title
                     /\ r.type = db.payload.type
                     /\ r.url = db.payload.url
                     /\ r.summary = db.payload.summary)} :
          /\ Len(m) = 1
          /\ \A i \in DOMAIN db.rets : db.rets[i] = m[1].id

====
